---- MODULE Spec2Model ----
(***************************************************************************)
(* Model of the image generation plugin: the retrying dispatcher           *)
(* ApiClient.generate_image (src/core/api_clients.py), the Action and      *)
(* Command entry points that call it (src/core/pic_action.py,              *)
(* src/core/pic_command.py), the OpenAI-compatible request builder         *)
(* (src/core/api_clients/openai_client.py) and the class-level result      *)
(* caches of Custom_Pic_Action (src/plugin.py).                            *)
(*                                                                         *)
(* Strings of the program are modelled as sequences of one-character       *)
(* strings where their characters matter (cache keys, exception texts),    *)
(* and as sequences of tokens where only substring tests are made on them  *)
(* (API keys, base URLs).  Floats are integers in hundredths (0.7 = 70).   *)
(* User-facing messages are written in ASCII.                              *)
(***************************************************************************)
EXTENDS Integers, Sequences, FiniteSets, TLC

VARIABLES
    pc,                 \* position of the request: "idle", "loop", "done"
    entry,              \* entry point that issued the request
    model_config,       \* the model configuration handed to generate_image
    sdk_installed,      \* whether volcenginesdkarkruntime can be imported
    strength,           \* strength argument of generate_image
    input_image_base64, \* input_image_base64 argument of generate_image
    max_retries,        \* max_retries argument of generate_image
    attempt,            \* loop variable of generate_image
    slept,              \* the backoff sleep of the current attempt was done
    events,             \* history: every sleep and adapter invocation so far
    result,             \* what the request returned to its caller
    payload_in,         \* inputs of the last OpenAIClient._make_request call
    payload_dict,       \* JSON body OpenAIClient._make_request built from them
    _request_cache,     \* Custom_Pic_Action._request_cache (insertion ordered)
    _img2img_cache,     \* Custom_Pic_Action._img2img_cache (insertion ordered)
    served,             \* history: the last cache hit delivered to a user
    inserted,           \* history: the last cache insertion and its eviction
    requests,           \* number of cache requests handled so far
    tasks,              \* the generation requests in flight on the shared caches
    ms,                 \* one run of the ModelScope adapter: submit and poll loop
    comfy,              \* one run of the ComfyUI adapter: submit and poll loop
    outbound,           \* outbound requests of one generation and the proxy state
    applied             \* the last pure function applied, its input and its result

vars == <<pc, entry, model_config, sdk_installed, strength, input_image_base64,
          max_retries, attempt, slept, events, result, payload_in, payload_dict,
          _request_cache, _img2img_cache, served, inserted, requests,
          tasks, ms, comfy, outbound, applied>>

dispatchVars == <<pc, entry, model_config, sdk_installed, strength,
                  input_image_base64, max_retries, attempt, slept, events, result>>
payloadVars == <<payload_in, payload_dict>>
cacheVars == <<_request_cache, _img2img_cache, served, inserted, requests>>
auxVars == <<tasks, ms, comfy, outbound, applied>>

----------------------------------------------------------------------------
(* Bounds of the model *)

\* largest components.max_retries value the Command is configured with
MaxRetriesBound == 2

\* number of requests one run of the cache specification handles
MaxRequests == 2

----------------------------------------------------------------------------
(* Values *)

StrengthNone == -1
ImgNone == "None"
Images == {"imgA", "imgB"}

Min(a, b) == IF a < b THEN a ELSE b

\* s[:n] of Python
Truncate(s, n) == SubSeq(s, 1, Min(Len(s), n))

\* a string of n characters, all c except the last, which is last
Chars(n, c, last) == [i \in 1..n |-> IF i = n THEN last ELSE c]

Msg(prefix, text) == [prefix |-> prefix, text |-> text]

----------------------------------------------------------------------------
(* Model configurations (models.<id> of the plugin configuration) *)

FormatAbsent == "absent"
Formats == {"openai", "doubao", "gemini", "modelscope", "comfyui", "sd-webui",
            FormatAbsent}

Placeholders == {"xxxxxxxxxxxxxx", "YOUR_API_KEY_HERE"}

\* api_key values, as token sequences; <<>> is the empty string
ApiKeys == {<<>>, <<"xxxxxxxxxxxxxx">>, <<"YOUR_API_KEY_HERE">>,
            <<"Bearer ", "xxxxxxxxxxxxxx">>, <<"sk-real">>}

GenericUrl == <<"https://", "api.example.com", "/v1">>

\* {} : what get_config returns for a model id that has no configuration
EmptyConfig ==
    [exists |-> FALSE, format |-> FormatAbsent, api_key |-> <<>>,
     base_url |-> <<>>, support_img2img |-> TRUE]

ModelConfigs ==
    {EmptyConfig} \cup
    [exists : {TRUE}, format : Formats, api_key : ApiKeys,
     base_url : {GenericUrl}, support_img2img : {TRUE}] \cup
    [exists : {TRUE}, format : {"openai", "modelscope"}, api_key : {<<"sk-real">>},
     base_url : {<<>>, GenericUrl}, support_img2img : BOOLEAN]

\* "YOUR_API_KEY_HERE" in http_api_key or "xxxxxxxxxxxxxx" in http_api_key
ContainsPlaceholder(api_key) ==
    \E i \in 1..Len(api_key) : api_key[i] \in Placeholders

IsNotBearer(tok) == tok # "Bearer "

\* api_key.replace("Bearer ", "")
StripBearer(api_key) == SelectSeq(api_key, IsNotBearer)

----------------------------------------------------------------------------
(* Adapters *)

Adapters == {"_make_doubao_request", "_make_modelscope_request",
             "_make_gemini_request", "_make_openai_image_request"}

\* the if/elif chain of generate_image on api_format
select_adapter(api_format) ==
    IF api_format = "doubao" THEN "_make_doubao_request"
    ELSE IF api_format = "modelscope" THEN "_make_modelscope_request"
    ELSE IF api_format = "gemini" THEN "_make_gemini_request"
    ELSE "_make_openai_image_request"

\* api_format = model_config.get("format", "openai")
get_format(cfg) == IF cfg.format = FormatAbsent THEN "openai" ELSE cfg.format

ExcTruncLen == 100

Payloads == {Msg("image", <<"P", "1">>), Msg("image", <<"P", "2">>)}
FailMsgs == {Msg("image API request failed (status 500)", <<>>),
             Msg("API responded without an image URL", <<>>)}
ExcTexts == {<<"b", "o", "o", "m">>, Chars(ExcTruncLen + 1, "e", "!")}

Outcome(kind, payload, net, cfgerr) ==
    [kind |-> kind, payload |-> payload, net |-> net, cfgerr |-> cfgerr]

\* what one invocation of an adapter that reaches the provider can produce:
\* a success, a returned failure, or an exception escaping the adapter or the
\* thread offload (raised before any request is sent)
ProviderOutcomes ==
    {Outcome("ok", p, TRUE, FALSE) : p \in Payloads} \cup
    {Outcome("fail", m, TRUE, FALSE) : m \in FailMsgs} \cup
    {Outcome("raise", Msg("exception", t), FALSE, FALSE) : t \in ExcTexts}

\* if not api_key or api_key in ["xxxxxxxxxxxxxx", "YOUR_API_KEY_HERE"]
modelscope_key_invalid(cfg) ==
    LET api_key == StripBearer(cfg.api_key)
    IN  api_key = <<>> \/ (Len(api_key) = 1 /\ api_key[1] \in Placeholders)

_make_modelscope_request(cfg) ==
    IF modelscope_key_invalid(cfg)
    THEN {Outcome("fail", Msg("modelscope API key not configured", <<>>), FALSE, TRUE)}
    ELSE ProviderOutcomes

_make_doubao_request(cfg, sdk) ==
    IF ~sdk
    THEN {Outcome("fail", Msg("doubao SDK missing, install volcengine-python-sdk[ark]", <<>>),
                  FALSE, TRUE)}
    ELSE ProviderOutcomes

_make_gemini_request(cfg) == ProviderOutcomes

_make_openai_image_request(cfg) == ProviderOutcomes

AdapterOutcomes(adapter, cfg, sdk) ==
    IF adapter = "_make_doubao_request" THEN _make_doubao_request(cfg, sdk)
    ELSE IF adapter = "_make_modelscope_request" THEN _make_modelscope_request(cfg)
    ELSE IF adapter = "_make_gemini_request" THEN _make_gemini_request(cfg)
    ELSE _make_openai_image_request(cfg)

----------------------------------------------------------------------------
(* ApiClient.generate_image *)

DefaultMaxRetries == 2
BackoffUnit == 1

SleepEvent(secs) ==
    [type |-> "sleep", secs |-> secs, adapter |-> "none", attempt |-> 0,
     outcome |-> Outcome("none", Msg("", <<>>), FALSE, FALSE)]

CallEvent(adapter, k, o) ==
    [type |-> "call", secs |-> 0, adapter |-> adapter, attempt |-> k, outcome |-> o]

NoResult == [kind |-> "none", success |-> FALSE, payload |-> Msg("", <<>>)]
Returned(success, payload) ==
    [kind |-> "returned", success |-> success, payload |-> payload]
Propagated(payload) == [kind |-> "propagated", success |-> FALSE, payload |-> payload]
Rejected(text) == [kind |-> "rejected", success |-> FALSE, payload |-> Msg(text, <<>>)]
CachedSent == [kind |-> "cached", success |-> TRUE, payload |-> Msg("image sent (cache)", <<>>)]

\* mutant: a fixed one-second wait instead of a linear backoff
backoff_fixed(k) == BackoffUnit

\* await asyncio.sleep(1.0 * attempt)
backoff(k) == BackoffUnit * k

\* whether the loop body sleeps before invoking the adapter: if attempt > 0
must_sleep(k) == k > 0

Continue == [next |-> "continue", result |-> NoResult]
Finish(r) == [next |-> "return", result |-> r]

\* mutant: a success on a non-final attempt does not end the loop
after_attempt_no_short_circuit(o, k, retries) ==
    IF o.kind = "ok"
    THEN IF k < retries THEN Continue ELSE Finish(Returned(TRUE, o.payload))
    ELSE IF o.kind = "fail"
    THEN IF k < retries THEN Continue ELSE Finish(Returned(FALSE, o.payload))
    ELSE IF k < retries THEN Continue
         ELSE Finish(Returned(FALSE, Msg("API call exception: ",
                                         Truncate(o.payload.text, ExcTruncLen))))

\* mutant: the exception of the final attempt is re-raised to the caller
after_attempt_reraise(o, k, retries) ==
    IF o.kind = "ok" THEN Finish(Returned(TRUE, o.payload))
    ELSE IF o.kind = "fail"
    THEN IF k < retries THEN Continue ELSE Finish(Returned(FALSE, o.payload))
    ELSE IF k < retries THEN Continue
         ELSE Finish(Propagated(o.payload))

\* mutant: an exception on the final attempt falls through to the statement
\* after the loop
after_attempt_fall_through(o, k, retries) ==
    IF o.kind = "ok" THEN Finish(Returned(TRUE, o.payload))
    ELSE IF o.kind = "fail"
    THEN IF k < retries THEN Continue ELSE Finish(Returned(FALSE, o.payload))
    ELSE IF k < retries THEN Continue
         ELSE Finish(Returned(FALSE, Msg("API call failed", <<>>)))

\* the tail of the loop body: what generate_image does with the outcome of
\* attempt k
after_attempt(o, k, retries) ==
    IF o.kind = "ok" THEN Finish(Returned(TRUE, o.payload))
    ELSE IF o.kind = "fail"
    THEN IF k < retries THEN Continue ELSE Finish(Returned(FALSE, o.payload))
    ELSE IF k < retries THEN Continue
         ELSE Finish(Returned(FALSE, Msg("API call exception: ",
                                         Truncate(o.payload.text, ExcTruncLen))))

\* the statement after the for loop
loop_exhausted == Returned(FALSE, Msg("API call failed", <<>>))

StartGenerate(ent, cfg, s, img, retries) ==
    /\ pc' = "loop"
    /\ entry' = ent
    /\ model_config' = cfg
    /\ strength' = s
    /\ input_image_base64' = img
    /\ max_retries' = retries
    /\ attempt' = 0
    /\ slept' = FALSE
    /\ events' = <<>>
    /\ result' = NoResult

EndWithout(ent, cfg, r) ==
    /\ pc' = "done"
    /\ entry' = ent
    /\ model_config' = cfg
    /\ result' = r
    /\ UNCHANGED <<strength, input_image_base64, max_retries, attempt, slept, events>>

generate_image_sleep ==
    /\ pc = "loop"
    /\ attempt <= max_retries
    /\ must_sleep(attempt)
    /\ ~slept
    /\ events' = Append(events, SleepEvent(backoff(attempt)))
    /\ slept' = TRUE
    /\ UNCHANGED <<pc, entry, model_config, sdk_installed, strength,
                   input_image_base64, max_retries, attempt, result>>
    /\ UNCHANGED payloadVars
    /\ UNCHANGED cacheVars
    /\ UNCHANGED auxVars

generate_image_attempt ==
    /\ pc = "loop"
    /\ attempt <= max_retries
    /\ must_sleep(attempt) => slept
    /\ LET adapter == select_adapter(get_format(model_config))
       IN  \E o \in AdapterOutcomes(adapter, model_config, sdk_installed) :
             LET a == after_attempt(o, attempt, max_retries)
             IN  /\ events' = Append(events, CallEvent(adapter, attempt, o))
                 /\ IF a.next = "continue"
                    THEN /\ attempt' = attempt + 1
                         /\ slept' = FALSE
                         /\ UNCHANGED <<pc, result>>
                    ELSE /\ pc' = "done"
                         /\ result' = a.result
                         /\ UNCHANGED <<attempt, slept>>
    /\ UNCHANGED <<entry, model_config, sdk_installed, strength,
                   input_image_base64, max_retries>>
    /\ UNCHANGED payloadVars
    /\ UNCHANGED cacheVars
    /\ UNCHANGED auxVars

generate_image_no_attempt ==
    /\ pc = "loop"
    /\ attempt > max_retries
    /\ pc' = "done"
    /\ result' = loop_exhausted
    /\ UNCHANGED <<entry, model_config, sdk_installed, strength,
                   input_image_base64, max_retries, attempt, slept, events>>
    /\ UNCHANGED payloadVars
    /\ UNCHANGED cacheVars
    /\ UNCHANGED auxVars

----------------------------------------------------------------------------
(* Entry points: Custom_Pic_Action (pic_action.py) and PicGenerationCommand
   (pic_command.py) *)

DefaultStrength == 70
MinStrength == 10
MaxStrength == 100

\* strength values of action_data, in hundredths
RawStrengths == {5, 85, 150}

\* strength = float(strength); if not (0.1 <= strength <= 1.0): strength = 0.7
normalize_strength(raw) ==
    IF MinStrength <= raw /\ raw <= MaxStrength THEN raw ELSE DefaultStrength

Args(s, img) == [strength |-> s, image |-> img]

\* Custom_Pic_Action.execute: the arguments it hands to
\* _execute_unified_generation after looking for an input image
Action_args(cfg, img, s) ==
    IF img # ImgNone
    THEN IF cfg.exists /\ ~cfg.support_img2img
         THEN Args(StrengthNone, ImgNone)
         ELSE Args(s, img)
    ELSE Args(StrengthNone, ImgNone)

\* Custom_Pic_Action._execute_unified_generation: the configuration checks
\* made before the cache lookup and the call of generate_image
Action_precheck(cfg) ==
    IF ~cfg.exists THEN "model config invalid"
    ELSE IF cfg.base_url = <<>> \/ cfg.api_key = <<>> THEN "HTTP config incomplete"
    ELSE IF ContainsPlaceholder(cfg.api_key) THEN "API key not configured"
    ELSE "ok"

\* PicGenerationCommand._execute_style_mode: the checks before generate_image
Command_style_precheck(cfg, img) ==
    IF ~cfg.exists THEN "model config missing"
    ELSE IF img = ImgNone THEN "no input image"
    ELSE IF ~cfg.support_img2img THEN "model does not support img2img"
    ELSE "ok"

\* PicGenerationCommand._execute_style_mode: strength=0.7 and the image found
Command_style_args(cfg, img) == Args(DefaultStrength, img)

\* PicGenerationCommand._execute_natural_mode: the check before generate_image
Command_natural_precheck(cfg) ==
    IF ~cfg.exists THEN "model config missing" ELSE "ok"

\* PicGenerationCommand._execute_natural_mode: mode detection, the downgrade
\* to text-to-image, and strength=0.7 if is_img2img_mode else None
Command_natural_args(cfg, img) ==
    LET is_img2img_mode == img # ImgNone /\ cfg.support_img2img
    IN  IF is_img2img_mode THEN Args(DefaultStrength, img)
        ELSE Args(StrengthNone, ImgNone)

\* components.max_retries values the Command reads from the configuration
ConfiguredRetries == (0 - 1)..MaxRetriesBound

Action_execute ==
    /\ pc = "idle"
    /\ \E cfg \in ModelConfigs, img \in Images \cup {ImgNone},
          raw \in RawStrengths, cache_hit_sent \in BOOLEAN :
         LET args == Action_args(cfg, img, normalize_strength(raw))
             chk == Action_precheck(cfg)
         IN  IF chk # "ok" THEN EndWithout("Action", cfg, Rejected(chk))
             ELSE IF cache_hit_sent THEN EndWithout("Action", cfg, CachedSent)
             ELSE StartGenerate("Action", cfg, args.strength, args.image,
                                DefaultMaxRetries)
    /\ UNCHANGED sdk_installed
    /\ UNCHANGED payloadVars
    /\ UNCHANGED cacheVars
    /\ UNCHANGED auxVars

Command_execute_style_mode ==
    /\ pc = "idle"
    /\ \E cfg \in ModelConfigs, img \in Images \cup {ImgNone},
          retries \in ConfiguredRetries :
         LET args == Command_style_args(cfg, img)
             chk == Command_style_precheck(cfg, img)
         IN  IF chk # "ok" THEN EndWithout("CommandStyle", cfg, Rejected(chk))
             ELSE StartGenerate("CommandStyle", cfg, args.strength, args.image,
                                retries)
    /\ UNCHANGED sdk_installed
    /\ UNCHANGED payloadVars
    /\ UNCHANGED cacheVars
    /\ UNCHANGED auxVars

Command_execute_natural_mode ==
    /\ pc = "idle"
    /\ \E cfg \in ModelConfigs, img \in Images \cup {ImgNone},
          retries \in ConfiguredRetries :
         LET args == Command_natural_args(cfg, img)
             chk == Command_natural_precheck(cfg)
         IN  IF chk # "ok" THEN EndWithout("CommandNatural", cfg, Rejected(chk))
             ELSE StartGenerate("CommandNatural", cfg, args.strength, args.image,
                                retries)
    /\ UNCHANGED sdk_installed
    /\ UNCHANGED payloadVars
    /\ UNCHANGED cacheVars
    /\ UNCHANGED auxVars

----------------------------------------------------------------------------
(* OpenAIClient._make_request: the keys of the JSON body it builds *)

ImgEmpty == ""

ArkUrl == <<"https://", "ark.cn-beijing.volces.com", "/api/v3">>
SiliconflowUrl == <<"https://", "api.siliconflow.cn", "/v1">>
OpenAIOfficialUrl == <<"https://", "API.OPENAI.COM", "/v1">>
GrokUrl == <<"https://", "api.x.ai", "/v1">>
\* the Doubao endpoint written with a trailing slash
ArkUrlSlash == ArkUrl \o <<"/">>
BaseUrls == {GenericUrl, ArkUrl, ArkUrlSlash, SiliconflowUrl, OpenAIOfficialUrl, GrokUrl}

KolorsModel == <<"Kwai-Kolors/", "Kolors">>
QwenImageModel == <<"Qwen", "/", "Qwen", "-Image">>
QwenEditModel == <<"Qwen", "/", "Qwen", "-", "Image-Edit">>
ModelNames == {KolorsModel, QwenImageModel, QwenEditModel}

SeedUnset == -1
Seeds == {SeedUnset, 0, 42}

\* str.lower() on one token
Lower(tok) ==
    IF tok = "API.OPENAI.COM" THEN "api.openai.com"
    ELSE IF tok = "Qwen" THEN "qwen"
    ELSE IF tok = "Image-Edit" THEN "image-edit"
    ELSE tok

\* the needles a token contains
Needles(tok) == {tok} \cup (IF tok = "api.siliconflow.cn" THEN {"siliconflow"} ELSE {})

\* needle in s
Contains(s, needle) == \E i \in 1..Len(s) : needle \in Needles(s[i])

\* needle in s.lower()
ContainsLower(s, needle) == \E i \in 1..Len(s) : needle \in Needles(Lower(s[i]))

\* if input_image_base64: (None and "" are both false)
Truthy(img) == img # ImgNone /\ img # ImgEmpty

Rename(keys, old, new) == IF old \in keys THEN (keys \ {old}) \cup {new} ELSE keys

\* mutant: strength is added whenever it is given, image or not
image_params_always_strength(s, img) ==
    (IF Truthy(img) THEN {"image"} ELSE {}) \cup
    (IF s # StrengthNone THEN {"strength"} ELSE {})

\* the image-to-image parameters: image, and strength if it is not None
image_params(s, img) ==
    IF Truthy(img)
    THEN {"image"} \cup (IF s # StrengthNone THEN {"strength"} ELSE {})
    ELSE {}

\* watermark for the Doubao endpoint, guidance_scale and num_inference_steps
\* for every other base URL
platform_params(base_url) ==
    IF Contains(base_url, "ark.cn-beijing.volces.com")
    THEN {"watermark"}
    ELSE {"guidance_scale", "num_inference_steps"}

\* the platform compatibility rewriting of the payload
platform_filter(keys, base_url, model, img) ==
    IF ContainsLower(base_url, "siliconflow") \/ ContainsLower(base_url, "api.siliconflow.cn")
    THEN LET k1 == Rename(Rename(keys, "size", "image_size"), "n", "batch_size")
         IN  IF ContainsLower(model, "qwen")
             THEN LET k2 == Rename(k1, "guidance_scale", "cfg")
                  IN  IF ContainsLower(model, "image-edit")
                      THEN k2 \ {"image_size"}
                      ELSE k2
             ELSE k1
    ELSE IF ContainsLower(base_url, "api.openai.com")
    THEN keys \cap ({"model", "prompt", "size", "n", "quality", "style", "response_format"}
                    \cup (IF Truthy(img) THEN {"image", "strength"} ELSE {}))
    ELSE IF ContainsLower(base_url, "api.x.ai")
    THEN keys \cap {"model", "prompt", "n", "response_format"}
    ELSE keys

OpenAIClient_payload(in) ==
    LET basic == {"model", "prompt", "size", "n"}
        optional == (IF in.negative_prompt THEN {"negative_prompt"} ELSE {}) \cup
                    (IF in.seed # 0 /\ in.seed # SeedUnset THEN {"seed"} ELSE {})
        keys == basic \cup optional \cup image_params(in.strength, in.image)
                      \cup platform_params(in.base_url)
    IN  platform_filter(keys, in.base_url, in.model, in.image)

PayloadInputs ==
    [base_url : BaseUrls, model : ModelNames,
     strength : {StrengthNone, DefaultStrength},
     image : {ImgNone, ImgEmpty, "imgA"},
     negative_prompt : BOOLEAN, seed : Seeds]

\* one invocation of the adapter, on any arguments
OpenAIClient_make_request ==
    /\ pc = "idle"
    /\ \E in \in PayloadInputs :
         /\ payload_in' = in
         /\ payload_dict' = OpenAIClient_payload(in)
    /\ pc' = "done"
    /\ entry' = "OpenAIClient"
    /\ UNCHANGED <<model_config, sdk_installed, strength, input_image_base64,
                   max_retries, attempt, slept, events, result>>
    /\ UNCHANGED cacheVars
    /\ UNCHANGED auxVars

\* ApiClient._make_openai_image_request (api_clients.py) builds its payload
\* without the platform rewriting and compares the base URL as a whole

\* if base_url == "https://ark.cn-beijing.volces.com/api/v3":
ApiClient_platform_params(base_url) ==
    IF base_url = <<"https://", "ark.cn-beijing.volces.com", "/api/v3">>
    THEN {"watermark"}
    ELSE {"guidance_scale", "num_inference_steps"}

ApiClient_payload(in) ==
    {"model", "prompt", "negative_prompt", "size", "seed", "api-key"}
        \cup image_params(in.strength, in.image)
        \cup ApiClient_platform_params(in.base_url)

\* one invocation of the adapter of ApiClient, on any arguments
ApiClient_make_openai_image_request ==
    /\ pc = "idle"
    /\ \E in \in PayloadInputs :
         /\ payload_in' = in
         /\ payload_dict' = ApiClient_payload(in)
    /\ pc' = "done"
    /\ entry' = "ApiClient"
    /\ UNCHANGED <<model_config, sdk_installed, strength, input_image_base64,
                   max_retries, attempt, slept, events, result>>
    /\ UNCHANGED cacheVars
    /\ UNCHANGED auxVars

----------------------------------------------------------------------------
(* The other components at rest: no request in flight on the caches, no
   adapter run, no outbound request, no function applied *)

\* number of generation requests in flight at once
NumTasks == 2

NoRequest ==
    [prompt |-> <<>>, model |-> <<>>, size |-> <<>>, strength |-> StrengthNone,
     image |-> ImgNone]

IdleTask == [pc |-> "idle", req |-> NoRequest, error |-> "none", via_hit |-> FALSE]

NoTasks == [t \in 1..NumTasks |-> IdleTask]

NoAdapterResult == [success |-> FALSE, prefix |-> "none", text |-> <<>>]

MsIdle ==
    [pc |-> "idle", attempt |-> 0, status_requests |-> 0, downloads |-> 0,
     slept |-> FALSE, trace |-> <<>>, last |-> "none", error_message |-> <<>>,
     output_images |-> <<>>, image_url |-> <<>>, content |-> <<>>, result |-> NoAdapterResult]

ComfyIdle ==
    [pc |-> "idle", elapsed |-> 0, late_request |-> FALSE, content |-> <<>>,
     result |-> NoAdapterResult]

NetIdle ==
    [pc |-> "idle", entry |-> "none", format |-> "none", proxy_enabled |-> FALSE,
     opener |-> "default", log |-> {}, result |-> "none", generations |-> 0]

NotApplied == [fn |-> "none", in |-> <<>>, out |-> <<>>]

InitAux ==
    /\ tasks = NoTasks
    /\ ms = MsIdle
    /\ comfy = ComfyIdle
    /\ outbound = NetIdle
    /\ applied = NotApplied

----------------------------------------------------------------------------
(* Specification of the dispatcher and its callers *)

NoPayloadIn ==
    [base_url |-> <<>>, model |-> <<>>, strength |-> StrengthNone,
     image |-> ImgNone, negative_prompt |-> FALSE, seed |-> 0]

InitPayload ==
    /\ payload_in = NoPayloadIn
    /\ payload_dict = {}

InitCache ==
    /\ _request_cache = <<>>
    /\ _img2img_cache = <<>>
    /\ served = <<>>
    /\ inserted = <<>>
    /\ requests = 0

InitDispatch ==
    /\ pc = "idle"
    /\ entry = "none"
    /\ model_config = EmptyConfig
    /\ sdk_installed \in BOOLEAN
    /\ strength = StrengthNone
    /\ input_image_base64 = ImgNone
    /\ max_retries = 0
    /\ attempt = 0
    /\ slept = FALSE
    /\ events = <<>>
    /\ result = NoResult

Init == InitDispatch /\ InitPayload /\ InitCache /\ InitAux

Next ==
    \/ Action_execute
    \/ Command_execute_style_mode
    \/ Command_execute_natural_mode
    \/ generate_image_sleep
    \/ generate_image_attempt
    \/ generate_image_no_attempt
    \/ OpenAIClient_make_request
    \/ ApiClient_make_openai_image_request

Spec == Init /\ [][Next]_vars

----------------------------------------------------------------------------
(* The class-level result caches of Custom_Pic_Action (plugin.py) *)

_cache_max_size == 100
_img2img_cache_max_size == 50
TxtKeyPromptLen == 100
Img2ImgKeyPromptLen == 50

Digit(d) == <<"0", "1", "2", "3", "4", "5", "6", "7", "8", "9">>[d + 1]

\* str(strength) of a float given in hundredths: 70 -> "0.7", 85 -> "0.85"
FloatStr(s) ==
    LET whole == s \div 100
        d1 == (s % 100) \div 10
        d2 == s % 10
    IN  <<Digit(whole), ".", Digit(d1)>> \o (IF d2 = 0 THEN <<>> ELSE <<Digit(d2)>>)

\* f"txt2img_{description[:100]}|{model}|{size}"
_get_cache_key(description, model, size) ==
    <<"t", "x", "t", "2", "i", "m", "g", "_">>
        \o Truncate(description, TxtKeyPromptLen) \o <<"|">> \o model \o <<"|">> \o size

\* f"img2img_{description[:50]}|{model}|{size}|{strength}"
_get_img2img_cache_key(description, model, size, s) ==
    <<"i", "m", "g", "2", "i", "m", "g", "_">>
        \o Truncate(description, Img2ImgKeyPromptLen) \o <<"|">> \o model \o <<"|">> \o size
        \o <<"|">> \o FloatStr(s)

Max(a, b) == IF a > b THEN a ELSE b

\* the index a Python slice seq[:e] stops at
SliceEnd(len, e) == IF e < 0 THEN Max(len + e, 0) ELSE Min(e, len)

Has(cache, key) == \E i \in 1..Len(cache) : cache[i].key = key

Get(cache, key) == (CHOOSE i \in 1..Len(cache) : cache[i].key = key)

\* cache_dict[cache_key] = value: a new key goes last, a present key keeps its place
Put(cache, key, value) ==
    IF Has(cache, key)
    THEN [i \in 1..Len(cache) |->
            IF cache[i].key = key THEN [key |-> key, value |-> value] ELSE cache[i]]
    ELSE Append(cache, [key |-> key, value |-> value])

\* mutant: the entry is left in place
Del_keep(cache, key) == cache

\* del cache_dict[cache_key]
Del(cache, key) == SelectSeq(cache, LAMBDA e : e.key # key)

\* mutant: the cleanup empties the cache
_cleanup_clear(cache, max_size) ==
    IF Len(cache) > max_size THEN <<>> ELSE cache

\* _cleanup_cache and _cleanup_img2img_cache:
\* keys_to_remove = list(cache.keys())[: -max_size // 2]
_cleanup(cache, max_size) ==
    IF Len(cache) > max_size
    THEN LET n == SliceEnd(Len(cache), (0 - max_size) \div 2)
         IN  SubSeq(cache, n + 1, Len(cache))
    ELSE cache

\* mutant: one cache serves both modes
select_cache_shared(is_img2img) == "_request_cache"

\* cache_dict = self._img2img_cache if is_img2img else self._request_cache
select_cache(is_img2img) ==
    IF is_img2img THEN "_img2img_cache" ELSE "_request_cache"

max_size_of(name) ==
    IF name = "_img2img_cache" THEN _img2img_cache_max_size ELSE _cache_max_size

\* cache_key of a request
request_key(req) ==
    IF req.image # ImgNone
    THEN _get_img2img_cache_key(req.prompt, req.model, req.size, req.strength)
    ELSE _get_cache_key(req.prompt, req.model, req.size)

\* prompts: a short one, one whose result fills the cache at the start, and
\* one longer than the part of it the key keeps
FillerPrompt(i) == <<"f", Digit(i \div 100), Digit((i \div 10) % 10), Digit(i % 10)>>
CatPrompt == <<"c", "a", "t">>
LongPrompt == Chars(TxtKeyPromptLen + 1, "a", "b")
CacheModel == <<"m", "1">>
CacheSize == <<"5", "1", "2", "x", "5", "1", "2">>

Request(prompt, s, img) ==
    [prompt |-> prompt, model |-> CacheModel, size |-> CacheSize,
     strength |-> s, image |-> img]

\* what Custom_Pic_Action.execute hands on: strength and the image found, or
\* neither
CacheRequests ==
    {Request(p, StrengthNone, ImgNone) : p \in {CatPrompt, FillerPrompt(1), LongPrompt}} \cup
    {Request(CatPrompt, st, img) : st \in {DefaultStrength, 85}, img \in Images} \cup
    {Request(FillerPrompt(1), DefaultStrength, "imgA")}

\* a cache holding the results of n earlier requests
Prefilled(n, img) ==
    [i \in 1..n |->
        LET req == Request(FillerPrompt(i),
                           IF img = ImgNone THEN StrengthNone ELSE DefaultStrength, img)
        IN  [key |-> request_key(req), value |-> req]]

NoServed == <<>>
NoInserted == <<>>

\* how full the two caches are at the start, below their maximum sizes
InitialFill == {0, 1, 2}

InitFilled ==
    /\ pc = "idle"
    /\ entry = "none"
    /\ model_config = EmptyConfig
    /\ sdk_installed = TRUE
    /\ strength = StrengthNone
    /\ input_image_base64 = ImgNone
    /\ max_retries = 0
    /\ attempt = 0
    /\ slept = FALSE
    /\ events = <<>>
    /\ result = NoResult
    /\ payload_in = NoPayloadIn
    /\ payload_dict = {}
    /\ \E room \in InitialFill :
         /\ _request_cache = Prefilled(_cache_max_size - room, ImgNone)
         /\ _img2img_cache = Prefilled(_img2img_cache_max_size - room, "imgA")
    /\ served = NoServed
    /\ inserted = NoInserted
    /\ requests = 0
    /\ tasks = NoTasks
    /\ ms = MsIdle
    /\ comfy = ComfyIdle
    /\ outbound = NetIdle
    /\ applied = NotApplied

\* Custom_Pic_Action._execute_unified_generation of plugin.py, from the cache
\* lookup on: a cached result is sent and, if sending fails, deleted; a
\* generated result that was sent is stored and the cache cleaned up.  The
\* cached value is tagged with the request that produced it.
Plugin_execute_unified_generation ==
    /\ requests < MaxRequests
    /\ requests' = requests + 1
    /\ \E req \in CacheRequests, cache_enabled \in BOOLEAN :
         LET is_img2img == req.image # ImgNone
             name == select_cache(is_img2img)
             cache_dict == IF name = "_img2img_cache" THEN _img2img_cache ELSE _request_cache
             cache_key == request_key(req)
             hit == cache_enabled /\ Has(cache_dict, cache_key)
         IN  \E send_cached_ok \in (IF hit THEN BOOLEAN ELSE {FALSE}) :
             \E generated_and_sent \in (IF hit /\ send_cached_ok THEN {FALSE} ELSE BOOLEAN) :
               LET after_hit == IF hit /\ ~send_cached_ok THEN Del(cache_dict, cache_key)
                                ELSE cache_dict
                   stored == Put(after_hit, cache_key, req)
                   final == IF generated_and_sent THEN _cleanup(stored, max_size_of(name))
                            ELSE after_hit
               IN  /\ served' = IF hit
                                THEN <<[req |-> req,
                                        value |-> cache_dict[Get(cache_dict, cache_key)].value]>>
                                ELSE NoServed
                   /\ inserted' = IF generated_and_sent
                                  THEN <<[cache |-> name, key |-> cache_key, stored |-> stored]>>
                                  ELSE NoInserted
                   /\ IF name = "_img2img_cache"
                      THEN _img2img_cache' = final /\ UNCHANGED _request_cache
                      ELSE _request_cache' = final /\ UNCHANGED _img2img_cache
    /\ UNCHANGED dispatchVars
    /\ UNCHANGED payloadVars
    /\ UNCHANGED auxVars

NextCache == Plugin_execute_unified_generation

SpecCache == InitFilled /\ [][NextCache]_vars

----------------------------------------------------------------------------
(* Several requests in flight on the class-level caches (plugin.py).  The
   event loop runs one coroutine at a time and switches only at an await, so
   each action below is one stretch of _execute_unified_generation between
   two awaits. *)

\* requests that can be in flight together: two text-to-image requests, one
\* of them for a key the cache holds at the start, and an image-to-image
\* request for a key its cache holds at the start
InFlightRequests ==
    {Request(FillerPrompt(1), StrengthNone, ImgNone),
     Request(CatPrompt, StrengthNone, ImgNone),
     Request(FillerPrompt(1), DefaultStrength, "imgA")}

cache_of(req) ==
    IF select_cache(req.image # ImgNone) = "_img2img_cache"
    THEN _img2img_cache ELSE _request_cache

SetTask(t, pc_, req, error, via_hit) ==
    tasks' = [tasks EXCEPT ![t] = [pc |-> pc_, req |-> req, error |-> error,
                                   via_hit |-> via_hit]]

\* the cache a request works on gets a new content, the other one is untouched
StoreCache(req, new) ==
    IF select_cache(req.image # ImgNone) = "_img2img_cache"
    THEN _img2img_cache' = new /\ UNCHANGED _request_cache
    ELSE _request_cache' = new /\ UNCHANGED _img2img_cache

\* from the entry of the method to the first await: the key is computed and
\* looked up; on a hit the cached result is read and its sending is awaited
Task_lookup(t) ==
    /\ tasks[t].pc = "idle"
    /\ \E req \in InFlightRequests, cache_enabled \in BOOLEAN :
         IF cache_enabled /\ Has(cache_of(req), request_key(req))
         THEN SetTask(t, "send_cached", req, "none", FALSE)
         ELSE SetTask(t, "generate", req, "none", FALSE)
    /\ UNCHANGED <<_request_cache, _img2img_cache>>

\* after await self.send_image(cached_result): return on success, otherwise
\* del cache_dict[cache_key], which raises KeyError if the key is not there
Task_after_cached_send(t) ==
    /\ tasks[t].pc = "send_cached"
    /\ LET req == tasks[t].req
           cache_key == request_key(req)
       IN  \E send_success \in BOOLEAN :
             IF send_success
             THEN /\ SetTask(t, "done", req, "none", FALSE)
                  /\ UNCHANGED <<_request_cache, _img2img_cache>>
             ELSE IF Has(cache_of(req), cache_key)
             THEN /\ SetTask(t, "generate", req, "none", TRUE)
                  /\ StoreCache(req, Del(cache_of(req), cache_key))
             ELSE /\ SetTask(t, "raised", req, "KeyError", TRUE)
                  /\ UNCHANGED <<_request_cache, _img2img_cache>>

\* after the awaits of the generation and of the delivery of its result: a
\* delivered result is stored and the cache cleaned up, anything else leaves
\* the cache alone
Task_after_generation(t) ==
    /\ tasks[t].pc = "generate"
    /\ LET req == tasks[t].req
           cache_key == request_key(req)
           name == select_cache(req.image # ImgNone)
       IN  \E generated_and_sent \in BOOLEAN :
             IF generated_and_sent
             THEN /\ SetTask(t, "done", req, "none", tasks[t].via_hit)
                  /\ StoreCache(req, _cleanup(Put(cache_of(req), cache_key, req),
                                              max_size_of(name)))
             ELSE /\ SetTask(t, "failed", req, "none", tasks[t].via_hit)
                  /\ UNCHANGED <<_request_cache, _img2img_cache>>

InitInFlight ==
    /\ pc = "idle"
    /\ entry = "none"
    /\ model_config = EmptyConfig
    /\ sdk_installed = TRUE
    /\ strength = StrengthNone
    /\ input_image_base64 = ImgNone
    /\ max_retries = 0
    /\ attempt = 0
    /\ slept = FALSE
    /\ events = <<>>
    /\ result = NoResult
    /\ payload_in = NoPayloadIn
    /\ payload_dict = {}
    /\ \E room \in InitialFill :
         /\ _request_cache = Prefilled(_cache_max_size - room, ImgNone)
         /\ _img2img_cache = Prefilled(_img2img_cache_max_size - room, "imgA")
    /\ served = NoServed
    /\ inserted = NoInserted
    /\ requests = 0
    /\ tasks = NoTasks
    /\ ms = MsIdle
    /\ comfy = ComfyIdle
    /\ outbound = NetIdle
    /\ applied = NotApplied

NextInFlight ==
    \E t \in 1..NumTasks :
        /\ \/ Task_lookup(t)
           \/ Task_after_cached_send(t)
           \/ Task_after_generation(t)
        /\ UNCHANGED <<served, inserted, requests, ms, comfy, outbound, applied>>
        /\ UNCHANGED dispatchVars
        /\ UNCHANGED payloadVars

SpecInFlight == InitInFlight /\ [][NextInFlight]_vars

----------------------------------------------------------------------------
(* The polling adapters: ApiClient._make_modelscope_request (api_clients.py)
   and ComfyUIClient (api_clients/comfyui_client.py).  Each action is one
   outbound request of the adapter together with the code around it. *)

\* number of poll answers the history of a ModelScope run keeps
TraceKept == 3

\* base64.b64encode(...).decode('utf-8')
B64Alphabet ==
    <<"A", "B", "C", "D", "E", "F", "G", "H", "I", "J", "K", "L", "M", "N", "O", "P",
      "Q", "R", "S", "T", "U", "V", "W", "X", "Y", "Z", "a", "b", "c", "d", "e", "f",
      "g", "h", "i", "j", "k", "l", "m", "n", "o", "p", "q", "r", "s", "t", "u", "v",
      "w", "x", "y", "z", "0", "1", "2", "3", "4", "5", "6", "7", "8", "9", "+", "/">>

\* the four characters that encode a group of one, two or three bytes
B64Group(g) ==
    LET b2 == IF Len(g) >= 2 THEN g[2] ELSE 0
        b3 == IF Len(g) >= 3 THEN g[3] ELSE 0
        n == g[1] * 65536 + b2 * 256 + b3
    IN  <<B64Alphabet[(n \div 262144) + 1],
          B64Alphabet[((n \div 4096) % 64) + 1],
          IF Len(g) >= 2 THEN B64Alphabet[((n \div 64) % 64) + 1] ELSE "=",
          IF Len(g) >= 3 THEN B64Alphabet[(n % 64) + 1] ELSE "=">>

RECURSIVE b64encode(_)
b64encode(bytes) ==
    IF Len(bytes) = 0 THEN <<>>
    ELSE IF Len(bytes) <= 3 THEN B64Group(bytes)
    ELSE B64Group(SubSeq(bytes, 1, 3)) \o b64encode(SubSeq(bytes, 4, Len(bytes)))

UrlA == <<"h", "t", "t", "p", ":", "/", "/", "x", "/", "y", ".", "p", "n", "g">>
UrlB == <<"h", "t", "t", "p", ":", "/", "/", "x", "/", "z", ".", "p", "n", "g">>

\* texts a provider or an exception can carry: a short one, one just over
\* 100 characters and one of 300 characters
ProviderTexts == ExcTexts \cup {Chars(3 * ExcTruncLen, "m", "!")}

\* bodies of a downloaded image: empty, one, two, three and four bytes
Contents == {<<>>, <<77>>, <<77, 97>>, <<77, 97, 110>>, <<255, 216, 255, 0>>}

AdapterResult(success, prefix, text) ==
    [success |-> success, prefix |-> prefix, text |-> text]

\* max_attempts = 24
max_attempts == 24

\* result_data.get("error_message", "任务执行失败")
DefaultErrorMessage == <<"t", "a", "s", "k", " ", "f", "a", "i", "l", "e", "d">>

TaskStatusAbsent == "absent"

PollAnswer(kind, task_status, output_images, error_message) ==
    [kind |-> kind, task_status |-> task_status, output_images |-> output_images,
     error_message |-> error_message]

\* what one status request can come back with: a non-200 response, an
\* exception, or a JSON body with or without task_status, output_images and
\* error_message (<<>> : the field is absent)
PollAnswers ==
    {PollAnswer("non200", TaskStatusAbsent, <<>>, <<>>),
     PollAnswer("raise", TaskStatusAbsent, <<>>, <<>>)} \cup
    {PollAnswer("status", st, <<>>, <<>>) :
        st \in {"PENDING", "RUNNING", "QUEUED", TaskStatusAbsent}} \cup
    {PollAnswer("status", "SUCCEED", imgs, <<>>) :
        imgs \in {<<>>, <<UrlA>>, <<UrlB, UrlA>>}} \cup
    {PollAnswer("status", "FAILED", <<>>, m) : m \in {<<>>} \cup ProviderTexts}

\* task_status = result_data.get("task_status", "UNKNOWN")
task_status_of(a) ==
    IF a.task_status = TaskStatusAbsent THEN "UNKNOWN" ELSE a.task_status

AnswerLabel(a) == IF a.kind = "status" THEN task_status_of(a) ELSE a.kind

TraceLabel(a) ==
    IF AnswerLabel(a) \in {"RUNNING", "SUCCEED"} THEN AnswerLabel(a) ELSE "other"

PollStep(next, sleep, res) == [next |-> next, sleep |-> sleep, result |-> res]

\* mutant: a status request that answers with a non-200 status or raises
\* ends the loop with a failure
ms_poll_step_abort_on_error(a) ==
    IF a.kind = "non200"
    THEN PollStep("return", FALSE, AdapterResult(FALSE, "status check failed", <<>>))
    ELSE IF a.kind = "raise"
    THEN PollStep("return", FALSE, AdapterResult(FALSE, "status check exception", <<>>))
    ELSE IF task_status_of(a) = "SUCCEED"
    THEN IF a.output_images # <<>>
         THEN PollStep("download", FALSE, NoAdapterResult)
         ELSE PollStep("return", FALSE,
                       AdapterResult(FALSE, "generated image not found", <<>>))
    ELSE IF task_status_of(a) = "FAILED"
    THEN PollStep("return", FALSE,
                  AdapterResult(FALSE, "task failed: ",
                                IF a.error_message = <<>> THEN DefaultErrorMessage
                                ELSE a.error_message))
    ELSE PollStep("continue", TRUE, NoAdapterResult)

\* the body of the poll loop after the status request: what it does with the
\* answer
ms_poll_step(a) ==
    IF a.kind = "non200" THEN PollStep("continue", FALSE, NoAdapterResult)
    ELSE IF a.kind = "raise" THEN PollStep("continue", TRUE, NoAdapterResult)
    ELSE IF task_status_of(a) = "SUCCEED"
    THEN IF a.output_images # <<>>
         THEN PollStep("download", FALSE, NoAdapterResult)
         ELSE PollStep("return", FALSE,
                       AdapterResult(FALSE, "generated image not found", <<>>))
    ELSE IF task_status_of(a) = "FAILED"
    THEN PollStep("return", FALSE,
                  AdapterResult(FALSE, "task failed: ",
                                IF a.error_message = <<>> THEN DefaultErrorMessage
                                ELSE a.error_message))
    ELSE IF task_status_of(a) \in {"PENDING", "RUNNING"}
    THEN PollStep("continue", TRUE, NoAdapterResult)
    ELSE PollStep("continue", TRUE, NoAdapterResult)

Download(kind, content, text) == [kind |-> kind, content |-> content, text |-> text]

\* what the download of the image can come back with
Downloads ==
    {Download("ok", c, <<>>) : c \in Contents} \cup
    {Download("non200", <<>>, <<>>)} \cup
    {Download("raise", <<>>, t) : t \in ProviderTexts}

\* mutant: the URL is returned instead of the downloaded image
ms_download_result_url(image_url, d) ==
    IF d.kind = "ok" THEN AdapterResult(TRUE, "image", image_url)
    ELSE IF d.kind = "non200" THEN AdapterResult(FALSE, "image download failed", <<>>)
    ELSE AdapterResult(FALSE, "image download exception: ", d.text)

\* the result of the adapter after the download of output_images[0]
ms_download_result(image_url, d) ==
    IF d.kind = "ok" THEN AdapterResult(TRUE, "image", b64encode(d.content))
    ELSE IF d.kind = "non200" THEN AdapterResult(FALSE, "image download failed", <<>>)
    ELSE AdapterResult(FALSE, "image download exception: ", d.text)

Submit(kind, text) == [kind |-> kind, text |-> text]

\* what the submission of the task can come back with
Submits ==
    {Submit("task_id", <<>>), Submit("no_task_id", <<>>)} \cup
    {Submit("non200", t) : t \in ProviderTexts} \cup
    {Submit("raise", t) : t \in ProviderTexts}

\* the result of the adapter when the submission does not yield a task_id
ms_submit_result(sub) ==
    IF sub.kind = "non200"
    THEN AdapterResult(FALSE, "request failed: ", Truncate(sub.text, ExcTruncLen))
    ELSE IF sub.kind = "no_task_id"
    THEN AdapterResult(FALSE, "no task id received", <<>>)
    ELSE AdapterResult(FALSE, "request failed: ", sub.text)

\* the key check and the submission of the task
ModelScope_submit ==
    /\ ms.pc = "idle"
    /\ comfy.pc = "idle"
    /\ \E cfg \in {c \in ModelConfigs : c.format = "modelscope"}, sub \in Submits :
         IF modelscope_key_invalid(cfg)
         THEN ms' = [ms EXCEPT !.pc = "done",
                               !.result = AdapterResult(FALSE,
                                              "modelscope API key not configured", <<>>)]
         ELSE IF sub.kind = "task_id"
         THEN ms' = [ms EXCEPT !.pc = "poll", !.attempt = 0]
         ELSE ms' = [ms EXCEPT !.pc = "done", !.result = ms_submit_result(sub)]
    /\ UNCHANGED comfy

\* for attempt in range(max_attempts)
ms_loop_continues(k) == k < max_attempts

\* one iteration of the poll loop: the status request, the reaction to its
\* answer and, for SUCCEED with an image, the download of output_images[0]
ModelScope_poll ==
    /\ ms.pc = "poll"
    /\ ms_loop_continues(ms.attempt)
    /\ \E a \in PollAnswers, d \in Downloads :
         LET step == ms_poll_step(a)
             polled == [ms EXCEPT !.status_requests = @ + 1,
                                  !.last = AnswerLabel(a),
                                  !.error_message = a.error_message,
                                  !.output_images = a.output_images,
                                  !.trace = IF Len(@) < TraceKept
                                            THEN Append(@, TraceLabel(a)) ELSE @]
         IN  IF step.next = "continue"
             THEN /\ d = Download("non200", <<>>, <<>>)
                  /\ ms' = [polled EXCEPT !.attempt = @ + 1, !.slept = step.sleep]
             ELSE IF step.next = "return"
             THEN /\ d = Download("non200", <<>>, <<>>)
                  /\ ms' = [polled EXCEPT !.pc = "done", !.result = step.result,
                                           !.slept = FALSE]
             ELSE ms' = [polled EXCEPT !.pc = "done",
                                       !.downloads = @ + 1,
                                       !.image_url = a.output_images[1],
                                       !.content = d.content,
                                       !.slept = FALSE,
                                       !.result = ms_download_result(a.output_images[1], d)]
    /\ UNCHANGED comfy

\* the statement after the poll loop
ModelScope_timeout ==
    /\ ms.pc = "poll"
    /\ ~ms_loop_continues(ms.attempt)
    /\ ms' = [ms EXCEPT !.pc = "done",
                        !.result = AdapterResult(FALSE, "task timed out", <<>>)]
    /\ UNCHANGED comfy

\* max_wait: int = 300
default_max_wait == 300

\* time.sleep(2)
comfy_sleep == 2

\* seconds a history request can take: timeout 10
HistoryDurations == {0, 1, 10}

\* seconds a request for the image can take: timeout 30
ImageDurations == {0, 30}

\* mutant: the budget is checked ten seconds late
comfy_within_budget_late(elapsed, max_wait) == elapsed < max_wait + 10

\* while time.time() - start_time < max_wait
comfy_within_budget(elapsed, max_wait) == elapsed < max_wait

\* the workflow check and the submission of the workflow
ComfyUI_submit ==
    /\ ms.pc = "idle"
    /\ comfy.pc = "idle"
    /\ \E has_workflow \in BOOLEAN, sub \in Submits :
         IF ~has_workflow
         THEN comfy' = [comfy EXCEPT !.pc = "done",
                           !.result = AdapterResult(FALSE,
                                          "ComfyUI workflow template not configured", <<>>)]
         ELSE IF sub.kind = "task_id"
         THEN comfy' = [comfy EXCEPT !.pc = "poll", !.elapsed = 0]
         ELSE IF sub.kind = "non200"
         THEN comfy' = [comfy EXCEPT !.pc = "done",
                           !.result = AdapterResult(FALSE, "submit failed: ",
                                                    Truncate(sub.text, ExcTruncLen))]
         ELSE IF sub.kind = "no_task_id"
         THEN comfy' = [comfy EXCEPT !.pc = "done",
                           !.result = AdapterResult(FALSE, "no task id received", <<>>)]
         ELSE comfy' = [comfy EXCEPT !.pc = "done",
                           !.result = AdapterResult(FALSE, "request failed: ", sub.text)]
    /\ UNCHANGED ms

\* one iteration of the loop of _poll_for_result: the history request and,
\* if the history lists an image, the request for it; an iteration that does
\* not return the image sleeps two seconds
ComfyUI_poll ==
    /\ comfy.pc = "poll"
    /\ comfy_within_budget(comfy.elapsed, default_max_wait)
    /\ \E hd \in HistoryDurations,
          history \in {"non200", "raise", "not_listed", "no_image", "image"},
          imd \in ImageDurations, got_image \in BOOLEAN, c \in Contents :
         LET late == comfy.late_request \/ comfy.elapsed >= default_max_wait
         IN  IF history = "image" /\ got_image
             THEN comfy' = [comfy EXCEPT !.pc = "done",
                               !.elapsed = @ + hd + imd,
                               !.late_request = late,
                               !.content = c,
                               !.result = AdapterResult(TRUE, "image", b64encode(c))]
             ELSE /\ c = <<>>
                  /\ history # "image" => (imd = 0 /\ ~got_image)
                  /\ comfy' = [comfy EXCEPT !.elapsed = @ + hd + imd + comfy_sleep,
                                            !.late_request = late]
    /\ UNCHANGED ms

\* _poll_for_result returns None after the loop and _make_request reports it
ComfyUI_timeout ==
    /\ comfy.pc = "poll"
    /\ ~comfy_within_budget(comfy.elapsed, default_max_wait)
    /\ comfy' = [comfy EXCEPT !.pc = "done",
                     !.result = AdapterResult(FALSE,
                                    "image generation timed out or failed", <<>>)]
    /\ UNCHANGED ms

InitPoll ==
    /\ pc = "idle"
    /\ entry = "none"
    /\ model_config = EmptyConfig
    /\ sdk_installed = TRUE
    /\ strength = StrengthNone
    /\ input_image_base64 = ImgNone
    /\ max_retries = 0
    /\ attempt = 0
    /\ slept = FALSE
    /\ events = <<>>
    /\ result = NoResult
    /\ payload_in = NoPayloadIn
    /\ payload_dict = {}
    /\ _request_cache = <<>>
    /\ _img2img_cache = <<>>
    /\ served = NoServed
    /\ inserted = NoInserted
    /\ requests = 0
    /\ tasks = NoTasks
    /\ ms = MsIdle
    /\ comfy = ComfyIdle
    /\ outbound = NetIdle
    /\ applied = NotApplied

PollFrame ==
    /\ UNCHANGED <<tasks, outbound, applied>>
    /\ UNCHANGED dispatchVars
    /\ UNCHANGED payloadVars
    /\ UNCHANGED cacheVars

NextPoll ==
    \/ ModelScope_submit /\ PollFrame
    \/ ModelScope_poll /\ PollFrame
    \/ ModelScope_timeout /\ PollFrame
    \/ ComfyUI_submit /\ PollFrame
    \/ ComfyUI_poll /\ PollFrame
    \/ ComfyUI_timeout /\ PollFrame

SpecPoll == InitPoll /\ [][NextPoll]_vars

\* the worker thread that runs an adapter keeps running it
SpecPollFair ==
    /\ InitPoll
    /\ [][NextPoll]_vars
    /\ WF_vars(ModelScope_poll /\ PollFrame)
    /\ WF_vars(ModelScope_timeout /\ PollFrame)
    /\ WF_vars(ComfyUI_poll /\ PollFrame)
    /\ WF_vars(ComfyUI_timeout /\ PollFrame)

----------------------------------------------------------------------------
(* Pure functions of the adapters, applied to inputs drawn from bounded
   sets: the response parsing of the OpenAI-compatible adapter, the Gemini
   image configuration and the pixel size parser *)

FieldAbsent == "<absent>"
JsonNull == "<null>"

B64Value == "iVBORw0KGgo"
DataUrl == "http://cdn/data0.png"
ImagesUrl == "http://cdn/images0.png"
TopUrl == "http://cdn/top.png"

\* the first element of a JSON list field of the response: the field is
\* missing, not a list or empty ("absent"), its first element is not an
\* object ("nondict"), or it is an object with or without b64_json and url
ListHead(kind, b64_json, url) == [kind |-> kind, b64_json |-> b64_json, url |-> url]

DataHeads ==
    {ListHead("absent", FieldAbsent, FieldAbsent),
     ListHead("nondict", FieldAbsent, FieldAbsent)} \cup
    {ListHead("dict", b, u) : b \in {FieldAbsent, JsonNull, "", B64Value},
                              u \in {FieldAbsent, JsonNull, "", DataUrl}}

ImagesHeads ==
    {ListHead("absent", FieldAbsent, FieldAbsent),
     ListHead("nondict", FieldAbsent, FieldAbsent)} \cup
    {ListHead("dict", FieldAbsent, u) : u \in {FieldAbsent, JsonNull, "", ImagesUrl}}

\* the JSON bodies of a 2xx response
Responses ==
    [data : DataHeads, images : ImagesHeads, url : {FieldAbsent, JsonNull, "", TopUrl}]

\* truth value of the result of dict.get: a missing key and null give None
JsonTruthy(v) == v \notin {FieldAbsent, JsonNull, ""}

ParseResult(kind, success, payload) ==
    [kind |-> kind, success |-> success, payload |-> payload]

\* the if/elif chain on the body of a 2xx response; len(b64_data) in the log
\* line of the first branch raises TypeError for null, which the except
\* branch of the adapter turns into a failure
openai_parse_response(response_data) ==
    IF response_data.data.kind = "dict" /\ response_data.data.b64_json # FieldAbsent
    THEN IF response_data.data.b64_json = JsonNull
         THEN ParseResult("exception", FALSE, "unexpected error during the HTTP request")
         ELSE ParseResult("returned", TRUE, response_data.data.b64_json)
    ELSE LET image_url ==
                 IF response_data.data.kind = "dict" THEN response_data.data.url
                 ELSE IF response_data.images.kind = "dict" THEN response_data.images.url
                 ELSE IF JsonTruthy(response_data.url) THEN response_data.url
                 ELSE FieldAbsent
         IN  IF JsonTruthy(image_url)
             THEN ParseResult("returned", TRUE, image_url)
             ELSE ParseResult("returned", FALSE, "API responded without an image URL")

Applied(fn, in, out) == [fn |-> fn, in |-> in, out |-> out]

\* the adapter parses the body of one 2xx response
Apply_openai_parse_response ==
    /\ applied = NotApplied
    /\ \E response_data \in Responses :
         applied' = Applied("openai_parse_response", response_data,
                            openai_parse_response(response_data))

\* Python string operations on strings given as sequences of characters

UpperLetters ==
    <<"A", "B", "C", "D", "E", "F", "G", "H", "I", "J", "K", "L", "M", "N", "O", "P",
      "Q", "R", "S", "T", "U", "V", "W", "X", "Y", "Z">>
LowerLetters ==
    <<"a", "b", "c", "d", "e", "f", "g", "h", "i", "j", "k", "l", "m", "n", "o", "p",
      "q", "r", "s", "t", "u", "v", "w", "x", "y", "z">>

LowerChar(c) ==
    IF \E i \in 1..26 : UpperLetters[i] = c
    THEN LowerLetters[CHOOSE i \in 1..26 : UpperLetters[i] = c] ELSE c
UpperChar(c) ==
    IF \E i \in 1..26 : LowerLetters[i] = c
    THEN UpperLetters[CHOOSE i \in 1..26 : LowerLetters[i] = c] ELSE c

\* s.lower(), s.upper()
StrLower(str) == [i \in 1..Len(str) |-> LowerChar(str[i])]
StrUpper(str) == [i \in 1..Len(str) |-> UpperChar(str[i])]

\* s.strip()
StrStrip(str) ==
    LET inked == {i \in 1..Len(str) : str[i] # " "}
    IN  IF inked = {} THEN <<>>
        ELSE SubSeq(str, CHOOSE i \in inked : \A j \in inked : i <= j,
                         CHOOSE i \in inked : \A j \in inked : i >= j)

\* c in s, for one character
HasChar(str, c) == \E i \in 1..Len(str) : str[i] = c

\* sub in s
IsSubstring(sub, str) ==
    \E i \in 0..(Len(str) - Len(sub)) : SubSeq(str, i + 1, i + Len(sub)) = sub

FirstIndex(str, c) == CHOOSE i \in 1..Len(str) : str[i] = c /\ \A j \in 1..(i - 1) : str[j] # c

\* s.split(sep)
RECURSIVE Split(_, _)
Split(str, sep) ==
    IF ~HasChar(str, sep) THEN <<str>>
    ELSE LET i == FirstIndex(str, sep)
         IN  <<SubSeq(str, 1, i - 1)>> \o Split(SubSeq(str, i + 1, Len(str)), sep)

\* s.split(sep, 1), for a string that contains sep
SplitOnce(str, sep) ==
    LET i == FirstIndex(str, sep)
    IN  <<SubSeq(str, 1, i - 1), SubSeq(str, i + 1, Len(str))>>

\* ApiClient._build_gemini_image_config

Gemini3Needle == <<"g", "e", "m", "i", "n", "i", "-", "3">>
Gemini3Pro == Gemini3Needle \o <<"-", "p", "r", "o">>
Gemini3ProCaps == <<"G", "e", "m", "i", "n", "i", "-", "3", "-", "P", "r", "o">>
Gemini25Flash == <<"g", "e", "m", "i", "n", "i", "-", "2", ".", "5", "-", "f", "l", "a", "s", "h">>

\* model names with the family they belong to
GeminiModels ==
    {[family |-> "gemini-3", name |-> Gemini3Pro],
     [family |-> "gemini-3 in capitals", name |-> Gemini3ProCaps],
     [family |-> "other", name |-> Gemini25Flash]}

Ratios == {<<"1", "6", ":", "9">>, <<"1", ":", "1">>}
Tiers == {<<"1", "K">>, <<"2", "K">>, <<"4", "K">>, <<"8", "K">>, <<"2", "k">>}
Pixel1024 == <<"1", "0", "2", "4", "x", "1", "0", "2", "4">>

SizeInput(form, ratio, tier, text) ==
    [form |-> form, ratio |-> ratio, tier |-> tier, text |-> text]

\* default_size values, with the parts they were written from
GeminiSizes ==
    {SizeInput("empty", <<>>, <<>>, <<>>), SizeInput("empty", <<>>, <<>>, <<" ", " ">>),
     SizeInput("pixel", <<>>, <<>>, Pixel1024),
     SizeInput("pixel", <<>>, <<>>, StrUpper(Pixel1024)),
     SizeInput("word", <<>>, <<>>, <<"s", "q", "u", "a", "r", "e">>)} \cup
    {SizeInput("ratio", r, <<>>, r) : r \in Ratios} \cup
    {SizeInput("ratio", r, <<>>, <<" ">> \o r \o <<" ">>) : r \in Ratios} \cup
    {SizeInput("ratio-tier", r, t, r \o <<"-">> \o t) : r \in Ratios, t \in Tiers} \cup
    {SizeInput("ratio-tier", r, t, <<" ">> \o r \o <<" ", "-", " ">> \o t \o <<" ">>) :
        r \in Ratios, t \in Tiers} \cup
    {SizeInput("pixel-tier", <<>>, t, Pixel1024 \o <<"-">> \o t) : t \in Tiers}

NoImageSize == <<>>
ImageConfigNone == [none |-> TRUE, aspectRatio |-> <<>>, imageSize |-> NoImageSize]
ImageConfig(aspectRatio, imageSize) ==
    [none |-> FALSE, aspectRatio |-> aspectRatio, imageSize |-> imageSize]

\* mutant: every model is taken to support imageSize
supports_image_size_always(model_name) == TRUE

\* "gemini-3" in model_name.lower()
supports_image_size(model_name) == IsSubstring(Gemini3Needle, StrLower(model_name))

_build_gemini_image_config(model_name, default_size) ==
    LET size == StrStrip(default_size)
        Square == <<"1", ":", "1">>
    IN  IF size = <<>> THEN ImageConfigNone
        ELSE IF HasChar(size, "-")
        THEN LET parts == SplitOnce(size, "-")
                 aspect_ratio == StrStrip(parts[1])
                 image_size == StrUpper(StrStrip(parts[2]))
             IN  IF supports_image_size(model_name)
                    /\ image_size \in {<<"1", "K">>, <<"2", "K">>, <<"4", "K">>}
                 THEN ImageConfig(aspect_ratio, image_size)
                 ELSE ImageConfig(aspect_ratio, NoImageSize)
        ELSE IF HasChar(size, ":") THEN ImageConfig(size, NoImageSize)
        ELSE IF HasChar(StrLower(size), "x") THEN ImageConfig(Square, NoImageSize)
        ELSE ImageConfig(Square, NoImageSize)

\* the Gemini adapter builds the image configuration of one request
Apply_build_gemini_image_config ==
    /\ applied = NotApplied
    /\ \E m \in GeminiModels, sz \in GeminiSizes :
         applied' = Applied("_build_gemini_image_config", [model |-> m, size |-> sz],
                            _build_gemini_image_config(m.name, sz.text))

\* parse_pixel_size (size_utils.py)

\* longest size string handed to parse_pixel_size
MaxSizeLen == 4

SizeAlphabet == {"0", "1", "x", "X", "*", "-", " ", "a"}
DigitChars == <<"0", "1", "2", "3", "4", "5", "6", "7", "8", "9">>
IsDigit(c) == \E i \in 1..10 : DigitChars[i] = c
DigitValue(c) == (CHOOSE i \in 1..10 : DigitChars[i] = c) - 1

\* values of the size argument: a string, or something that is not a string
StrArg(chars) == [is_str |-> TRUE, chars |-> chars]
NotAStr == [is_str |-> FALSE, chars |-> <<>>]
SizeArgs ==
    {NotAStr} \cup
    {StrArg(chars) : chars \in UNION {[1..n -> SizeAlphabet] : n \in 0..MaxSizeLen}}

DefaultDims == {<<1024, 1024>>, <<512, 768>>}

RECURSIVE DigitsValue(_)
DigitsValue(digits) ==
    IF Len(digits) = 0 THEN 0
    ELSE 10 * DigitsValue(SubSeq(digits, 1, Len(digits) - 1)) + DigitValue(digits[Len(digits)])

IntResult(ok, value) == [ok |-> ok, value |-> value]

\* int(text): surrounding whitespace and a leading minus sign are accepted;
\* anything else that is not a digit raises ValueError (ok = FALSE)
py_int(text) ==
    LET t == StrStrip(text)
        negative == Len(t) > 0 /\ t[1] = "-"
        digits == IF negative THEN SubSeq(t, 2, Len(t)) ELSE t
    IN  IF Len(digits) > 0 /\ \A i \in 1..Len(digits) : IsDigit(digits[i])
        THEN IntResult(TRUE, IF negative THEN 0 - DigitsValue(digits) ELSE DigitsValue(digits))
        ELSE IntResult(FALSE, 0)

\* mutant: any two integers are accepted
dims_valid_any(width, height) == TRUE

\* if width > 0 and height > 0
dims_valid(width, height) == width > 0 /\ height > 0

\* the body of the loop over the separators, for one separator
try_separator(size_lower, separator) ==
    IF ~HasChar(size_lower, separator) THEN IntResult(FALSE, <<0, 0>>)
    ELSE LET parts == Split(size_lower, separator)
         IN  IF Len(parts) # 2 THEN IntResult(FALSE, <<0, 0>>)
             ELSE LET width == py_int(StrStrip(parts[1]))
                      height == py_int(StrStrip(parts[2]))
                  IN  IF width.ok /\ height.ok /\ dims_valid(width.value, height.value)
                      THEN IntResult(TRUE, <<width.value, height.value>>)
                      ELSE IntResult(FALSE, <<0, 0>>)

parse_pixel_size(size, default_width, default_height) ==
    IF ~size.is_str \/ size.chars = <<>> THEN <<default_width, default_height>>
    ELSE LET size_lower == StrStrip(StrLower(size.chars))
             by_x == try_separator(size_lower, "x")
             by_star == try_separator(size_lower, "*")
         IN  IF by_x.ok THEN by_x.value
             ELSE IF by_star.ok THEN by_star.value
             ELSE <<default_width, default_height>>

\* one call of parse_pixel_size
Apply_parse_pixel_size ==
    /\ applied = NotApplied
    /\ \E size \in SizeArgs, dims \in DefaultDims :
         applied' = Applied("parse_pixel_size",
                            [size |-> size, default_width |-> dims[1],
                             default_height |-> dims[2]],
                            parse_pixel_size(size, dims[1], dims[2]))

\* validate_image_size (size_utils.py)

\* tokens the head of a size string is written from
MaxSizeTokens == 3

SizeTokens ==
    {<<"0">>, <<"1", "6">>, <<"6", "3">>, <<"6", "4">>, <<":">>, <<"x">>, <<"X">>,
     <<"*">>, <<" ">>, <<"a">>}

SizeTails ==
    {<<>>, <<"-", "1", "K">>, <<"-", "2", "K">>, <<"-", "4", "K">>, <<"-", "5", "K">>,
     <<"-", "2", "k">>, <<" ", "-", " ", "2", "K", " ">>}

RECURSIVE Flatten(_)
Flatten(seqs) == IF seqs = <<>> THEN <<>> ELSE Head(seqs) \o Flatten(Tail(seqs))

SizeExamples ==
    {<<"1", "0", "2", "4", "x", "1", "0", "2", "4">>, <<"1", "6", ":", "9">>,
     <<"1", "6", ":", "9", "-", "2", "K">>, <<"-", "4", "K">>, <<"1", "0", "2", "4">>,
     <<"a", "b", "c", "x", "d", "e", "f">>, <<"1", "6", ":", "9", "-", "5", "K">>,
     <<"4", "0", "9", "6", "x", "4", "0", "9", "6">>, <<"4", "0", "9", "7", "x", "6", "4">>,
     <<"6", "4", "x", "4", "0", "9", "7">>}

ValidateArgs ==
    {NotAStr} \cup {StrArg(chars) : chars \in SizeExamples} \cup
    {StrArg(Flatten(head) \o tail) :
        head \in UNION {[1..n -> SizeTokens] : n \in 0..MaxSizeTokens},
        tail \in SizeTails}

\* resolution in ['1K', '2K', '4K']
is_resolution(resolution) == resolution \in {<<"1", "K">>, <<"2", "K">>, <<"4", "K">>}

\* mutant: the limits themselves are refused
in_pixel_range_exclusive(width, height) ==
    64 < width /\ width < 4096 /\ 64 < height /\ height < 4096

\* 64 <= width <= 4096 and 64 <= height <= 4096
in_pixel_range(width, height) ==
    64 <= width /\ width <= 4096 /\ 64 <= height /\ height <= 4096

\* w = int(...), h = int(...) of the two sides of the first colon; ValueError
\* gives ok = FALSE
aspect_ints(aspect) ==
    LET parts == SplitOnce(aspect, ":")
        w == py_int(StrStrip(parts[1]))
        h == py_int(StrStrip(parts[2]))
    IN  IF w.ok /\ h.ok THEN IntResult(TRUE, <<w.value, h.value>>)
        ELSE IntResult(FALSE, <<0, 0>>)

validate_image_size(size_arg) ==
    IF ~size_arg.is_str \/ size_arg.chars = <<>> THEN FALSE
    ELSE LET size == StrStrip(size_arg.chars)
         IN  IF Len(size) > 0 /\ size[1] = "-"
             THEN is_resolution(StrUpper(StrStrip(SubSeq(size, 2, Len(size)))))
             ELSE IF HasChar(size, "-") /\ HasChar(size, ":")
             THEN LET parts == SplitOnce(size, "-")
                      aspect_part == StrStrip(parts[1])
                      resolution == StrUpper(StrStrip(parts[2]))
                  IN  IF HasChar(aspect_part, ":")
                      THEN LET wh == aspect_ints(aspect_part)
                           IN  IF ~wh.ok THEN FALSE
                               ELSE IF wh.value[1] <= 0 \/ wh.value[2] <= 0 THEN FALSE
                               ELSE is_resolution(resolution)
                      ELSE FALSE
             ELSE IF HasChar(size, ":") /\ ~HasChar(StrLower(size), "x")
             THEN LET wh == aspect_ints(size)
                  IN  wh.ok /\ wh.value[1] > 0 /\ wh.value[2] > 0
             ELSE IF HasChar(StrLower(size), "x") \/ HasChar(size, "*")
             THEN LET wh == parse_pixel_size(StrArg(size), 0, 0)
                  IN  in_pixel_range(wh[1], wh[2])
             ELSE FALSE

\* one call of validate_image_size
Apply_validate_image_size ==
    /\ applied = NotApplied
    /\ \E size \in ValidateArgs :
         applied' = Applied("validate_image_size", size, validate_image_size(size))

\* ImageProcessor.process_api_response (image_utils.py) and
\* Custom_Pic_Action._process_api_response (plugin.py), which are the same code

\* Python values an API result is made of: a missing key, None, a string, a list
JAbsent == [t |-> "absent", s |-> "", l |-> <<>>]
JNone == [t |-> "none", s |-> "", l |-> <<>>]
JStr(str) == [t |-> "str", s |-> str, l |-> <<>>]
JList(elems) == [t |-> "list", s |-> "", l |-> elems]

TopValues(v) == {JAbsent, JNone, JStr(""), JStr(v)}
NestedValues(v) == {JAbsent, JNone, JStr(""), JStr(v), JList(<<>>), JList(<<v, "second">>)}

\* result["output"]: missing, not a dict, or a dict with image_url and images
Outputs ==
    {[kind |-> k, image_url |-> JAbsent, images |-> JAbsent] : k \in {"absent", "nondict"}} \cup
    [kind : {"dict"}, image_url : NestedValues("http://cdn/out.png"),
     images : NestedValues("http://cdn/img0.png")]

ApiResults ==
    {[kind |-> "str", text |-> JStr(v), url |-> JAbsent, image |-> JAbsent,
      b64_json |-> JAbsent, data |-> JAbsent,
      output |-> [kind |-> "absent", image_url |-> JAbsent, images |-> JAbsent]] :
        v \in {"", "iVBORw0KGgo", "http://cdn/a.png"}} \cup
    {[kind |-> "other", text |-> JNone, url |-> JAbsent, image |-> JAbsent,
      b64_json |-> JAbsent, data |-> JAbsent,
      output |-> [kind |-> "absent", image_url |-> JAbsent, images |-> JAbsent]]} \cup
    [kind : {"dict"}, text : {JNone}, url : TopValues("http://cdn/a.png"),
     image : TopValues("/9j/4AAQ"), b64_json : {JAbsent, JStr("iVBORw0KGgo")},
     data : {JAbsent, JStr(""), JStr("UklGRg")}, output : Outputs]

\* truth value of a Python value
py_truthy(v) == (v.t = "str" /\ v.s # "") \/ (v.t = "list" /\ v.l # <<>>)

\* data[0] if isinstance(data, list) and data else data
first_or_self(data) == IF data.t = "list" /\ data.l # <<>> THEN JStr(data.l[1]) ELSE data

process_api_response(api_result) ==
    IF api_result.kind = "str" THEN api_result.text
    ELSE IF api_result.kind = "dict"
    THEN IF py_truthy(api_result.url) THEN api_result.url
         ELSE IF py_truthy(api_result.image) THEN api_result.image
         ELSE IF py_truthy(api_result.b64_json) THEN api_result.b64_json
         ELSE IF py_truthy(api_result.data) THEN api_result.data
         ELSE IF api_result.output.kind = "dict"
         THEN IF api_result.output.image_url # JAbsent
              THEN first_or_self(api_result.output.image_url)
              ELSE IF api_result.output.images # JAbsent
              THEN first_or_self(api_result.output.images)
              ELSE JNone
         ELSE JNone
    ELSE JNone

\* the caller extracts the image data from one adapter result
Apply_process_api_response ==
    /\ applied = NotApplied
    /\ \E api_result \in ApiResults :
         applied' = Applied("process_api_response", api_result,
                            process_api_response(api_result))

\* The lookup of the model configuration by the Action and by the Command

ModelIds == {"model1", "model2", "model9"}
ConfiguredModels == SUBSET {"model1", "model2"}
NoModel == "none"

\* a complete configuration, as models.<id> holds it
GoodConfig ==
    [exists |-> TRUE, format |-> "openai", api_key |-> <<"sk-real">>,
     base_url |-> GenericUrl, support_img2img |-> TRUE]

\* the configuration the lookup hands back: {} or None when no model was found
config_of(id) == IF id = NoModel THEN EmptyConfig ELSE GoodConfig

\* Custom_Pic_Action._get_model_config: the id whose configuration is returned
Action_get_model_config(model_id, default_model, configured) ==
    LET id == IF model_id = "" THEN default_model ELSE model_id
    IN  IF id \in configured THEN id
        ELSE IF default_model # id /\ default_model \in configured THEN default_model
        ELSE NoModel

\* PicGenerationCommand._get_model_config
Command_get_model_config(model_id, configured) ==
    IF model_id \in configured THEN model_id ELSE NoModel

\* a request names a model; the entry point looks its configuration up and
\* runs its checks on what it found
Apply_get_model_config ==
    /\ applied = NotApplied
    /\ \E caller \in {"Action", "Command"}, model_id \in ModelIds \cup {""},
          default_model \in {"model1", "model2"}, configured \in ConfiguredModels :
         LET id == IF caller = "Action"
                   THEN Action_get_model_config(model_id, default_model, configured)
                   ELSE Command_get_model_config(
                            IF model_id = "" THEN default_model ELSE model_id, configured)
             check == IF caller = "Action" THEN Action_precheck(config_of(id))
                      ELSE Command_natural_precheck(config_of(id))
         IN  applied' = Applied("_get_model_config",
                                [caller |-> caller, model_id |-> model_id,
                                 default_model |-> default_model,
                                 configured |-> configured],
                                [served_by |-> id, check |-> check])

\* The prompt the entry points hand to generate_image, by its length. A
\* description is one keyword of description_len characters without commas
\* that none of the added selfie keywords repeats.

\* if len(description) > 1000: description = description[:1000]
DescriptionLimit == 1000

DescriptionLens == {0, 1, DescriptionLimit, DescriptionLimit + 1}

HandedPrompt(handed, len) == [handed |-> handed, len |-> len]

\* _process_selfie_prompt: ", ".join of forced_subject (23 characters), the
\* hand action ("peace sign, v sign", 18), the scene (58 or 84) and the
\* description
selfie_prompt_len(description_len, selfie_style) ==
    23 + 2 + 18 + 2 + (IF selfie_style = "mirror" THEN 84 ELSE 58) + 2 + description_len

\* Custom_Pic_Action.execute up to the call of _execute_unified_generation
Action_prompt(description_len, selfie_mode, selfie_style) ==
    IF description_len = 0 THEN HandedPrompt(FALSE, 0)
    ELSE LET cut == IF description_len > DescriptionLimit THEN DescriptionLimit
                    ELSE description_len
         IN  IF selfie_mode THEN HandedPrompt(TRUE, selfie_prompt_len(cut, selfie_style))
             ELSE HandedPrompt(TRUE, cut)

\* PicGenerationCommand.execute and _execute_natural_mode: the content after
\* "/dr " is an optional model selector such as "用model1画" followed by
\* body_len further characters; _remove_model_pattern deletes the selector
Command_natural_prompt(has_selector, body_len) ==
    IF ~has_selector /\ body_len = 0 THEN HandedPrompt(FALSE, 0)
    ELSE HandedPrompt(TRUE, body_len)

\* an entry point prepares the prompt of one request
Apply_entry_prompt ==
    /\ applied = NotApplied
    /\ \/ \E n \in DescriptionLens, selfie_mode \in BOOLEAN,
             selfie_style \in {"standard", "mirror"} :
            applied' = Applied("prompt",
                               [caller |-> "Action", description_len |-> n,
                                selfie_mode |-> selfie_mode, selfie_style |-> selfie_style,
                                has_selector |-> FALSE],
                               Action_prompt(n, selfie_mode, selfie_style))
       \/ \E n \in DescriptionLens, has_selector \in BOOLEAN :
            applied' = Applied("prompt",
                               [caller |-> "Command", description_len |-> n,
                                selfie_mode |-> FALSE, selfie_style |-> "standard",
                                has_selector |-> has_selector],
                               Command_natural_prompt(has_selector, n))

\* Custom_Pic_Action._execute_unified_generation after the call of
\* generate_image: what the method returns and whether it stores the image

Returns(value, success, cached) == [value |-> value, success |-> success, cached |-> cached]

\* the payload process_api_response extracted: Base64 (recognised by its
\* prefix), anything else non-empty (taken as a URL), or nothing
ExtractedKinds == {"base64", "url", "nothing"}

\* the download and encoding of a URL: (True, data), (False, message), or raised
EncodeOutcomes == {"encoded", "failed", "raised"}

finish_generation(success, extracted, encode, send_success) ==
    IF ~success THEN Returns("pair", FALSE, FALSE)
    ELSE IF extracted = "nothing" THEN Returns("pair", FALSE, FALSE)
    ELSE IF extracted = "base64"
    THEN IF send_success THEN Returns("pair", TRUE, TRUE)
         ELSE Returns("pair", FALSE, FALSE)
    ELSE IF encode = "encoded"
    THEN IF send_success THEN Returns("pair", TRUE, TRUE)
         ELSE Returns("None", FALSE, FALSE)
    ELSE IF encode = "failed" THEN Returns("pair", FALSE, FALSE)
    ELSE Returns("pair", FALSE, FALSE)

\* one generation of the Action comes back from generate_image
Apply_finish_generation ==
    /\ applied = NotApplied
    /\ \E success \in BOOLEAN, extracted \in ExtractedKinds,
          encode \in EncodeOutcomes, send_success \in BOOLEAN :
         applied' = Applied("finish_generation",
                            [success |-> success, extracted |-> extracted,
                             encode |-> encode, send_success |-> send_success],
                            finish_generation(success, extracted, encode, send_success))

InitFn ==
    /\ pc = "idle"
    /\ entry = "none"
    /\ model_config = EmptyConfig
    /\ sdk_installed = TRUE
    /\ strength = StrengthNone
    /\ input_image_base64 = ImgNone
    /\ max_retries = 0
    /\ attempt = 0
    /\ slept = FALSE
    /\ events = <<>>
    /\ result = NoResult
    /\ payload_in = NoPayloadIn
    /\ payload_dict = {}
    /\ _request_cache = <<>>
    /\ _img2img_cache = <<>>
    /\ served = NoServed
    /\ inserted = NoInserted
    /\ requests = 0
    /\ tasks = NoTasks
    /\ ms = MsIdle
    /\ comfy = ComfyIdle
    /\ outbound = NetIdle
    /\ applied = NotApplied

FnFrame ==
    /\ UNCHANGED <<tasks, ms, comfy, outbound>>
    /\ UNCHANGED dispatchVars
    /\ UNCHANGED payloadVars
    /\ UNCHANGED cacheVars

NextFn ==
    \/ Apply_openai_parse_response /\ FnFrame
    \/ Apply_build_gemini_image_config /\ FnFrame
    \/ Apply_parse_pixel_size /\ FnFrame
    \/ Apply_validate_image_size /\ FnFrame
    \/ Apply_process_api_response /\ FnFrame
    \/ Apply_get_model_config /\ FnFrame
    \/ Apply_entry_prompt /\ FnFrame
    \/ Apply_finish_generation /\ FnFrame

SpecFn == InitFn /\ [][NextFn]_vars

\* Outbound requests of a generation and the proxy configuration

\* generations followed within one process
MaxGenerations == 2

Callers == {"Action", "Command"}

\* one outbound HTTP request: who sent it, what for, and whether it went
\* through the proxy of the configuration
OutboundRequest(sender, purpose, via_proxy) ==
    [sender |-> sender, purpose |-> purpose, via_proxy |-> via_proxy]

\* requests.get / requests.post / the Ark client with the proxies argument
\* built from _get_proxy_config: used exactly when proxy.enabled is set
via_proxies_argument(proxy_enabled) == proxy_enabled

\* urllib.request.urlopen: goes through the opener installed in the process
via_installed_opener(opener) == opener = "proxy"

\* what each adapter can hand back on success
AdapterPayloads(adapter) ==
    IF adapter = "_make_doubao_request" THEN {"url"}
    ELSE IF adapter = "_make_gemini_request" THEN {"base64"}
    ELSE IF adapter = "_make_modelscope_request" THEN {"base64"}
    ELSE {"url", "base64"}

\* a draw_picture action or a /dr command starts a generation; proxy.enabled
\* is read from the configuration by every request (get_config), and the
\* configuration may have been edited since the generation before; the opener
\* installed in the process stays as it is
Outbound_start ==
    /\ outbound.pc \in {"idle", "done"}
    /\ outbound.generations < MaxGenerations
    /\ \E caller \in Callers, api_format \in Formats, enabled \in BOOLEAN :
         outbound' = [outbound EXCEPT !.pc = "adapter", !.entry = caller,
                                      !.format = api_format, !.log = {},
                                      !.proxy_enabled = enabled,
                                      !.result = "none",
                                      !.generations = outbound.generations + 1]

\* the adapter chosen by generate_image sends its submit request
Outbound_adapter_submit ==
    /\ outbound.pc = "adapter"
    /\ LET adapter == select_adapter(outbound.format)
           opener == IF adapter = "_make_openai_image_request" /\ outbound.proxy_enabled
                     THEN "proxy" ELSE outbound.opener
           via == IF adapter = "_make_openai_image_request"
                  THEN via_installed_opener(opener)
                  ELSE via_proxies_argument(outbound.proxy_enabled)
           log == outbound.log \cup {OutboundRequest(adapter, "submit", via)}
       IN  \/ /\ adapter = "_make_modelscope_request"
              /\ outbound' = [outbound EXCEPT !.pc = "poll", !.log = log]
           \/ /\ adapter # "_make_modelscope_request"
              /\ \E res \in AdapterPayloads(adapter) \cup {"failure"} :
                   outbound' = [outbound EXCEPT !.pc = "caller", !.opener = opener,
                                                !.log = log, !.result = res]
           \/ /\ adapter = "_make_modelscope_request"
              /\ outbound' = [outbound EXCEPT !.pc = "caller", !.log = log,
                                              !.result = "failure"]

\* one status request of the ModelScope loop; on SUCCEED the adapter
\* downloads the image itself
Outbound_modelscope_poll ==
    /\ outbound.pc = "poll"
    /\ LET adapter == "_make_modelscope_request"
           via == via_proxies_argument(outbound.proxy_enabled)
           polled == outbound.log \cup {OutboundRequest(adapter, "poll", via)}
           fetched == polled \cup {OutboundRequest(adapter, "download", via)}
       IN  \/ outbound' = [outbound EXCEPT !.log = polled]
           \/ outbound' = [outbound EXCEPT !.pc = "caller", !.log = polled,
                                           !.result = "failure"]
           \/ \E res \in {"base64", "failure"} :
                outbound' = [outbound EXCEPT !.pc = "caller", !.log = fetched,
                                             !.result = res]

\* the caller handles the result: Base64 is sent as it is, a URL is downloaded
\* first (ImageProcessor.download_and_encode_base64 for the Action,
\* PicGenerationCommand._download_and_encode_base64 for the Command)
Outbound_caller ==
    /\ outbound.pc = "caller"
    /\ LET via == IF outbound.entry = "Action"
                  THEN via_installed_opener(outbound.opener)
                  ELSE via_proxies_argument(outbound.proxy_enabled)
       IN  outbound' =
             [outbound EXCEPT
                !.pc = "done",
                !.log = IF outbound.result = "url"
                        THEN outbound.log \cup {OutboundRequest(outbound.entry, "download", via)}
                        ELSE outbound.log]

InitProxy ==
    /\ pc = "idle"
    /\ entry = "none"
    /\ model_config = EmptyConfig
    /\ sdk_installed = TRUE
    /\ strength = StrengthNone
    /\ input_image_base64 = ImgNone
    /\ max_retries = 0
    /\ attempt = 0
    /\ slept = FALSE
    /\ events = <<>>
    /\ result = NoResult
    /\ payload_in = NoPayloadIn
    /\ payload_dict = {}
    /\ _request_cache = <<>>
    /\ _img2img_cache = <<>>
    /\ served = NoServed
    /\ inserted = NoInserted
    /\ requests = 0
    /\ tasks = NoTasks
    /\ ms = MsIdle
    /\ comfy = ComfyIdle
    /\ outbound \in {[NetIdle EXCEPT !.proxy_enabled = enabled] : enabled \in BOOLEAN}
    /\ applied = NotApplied

ProxyFrame ==
    /\ UNCHANGED <<tasks, ms, comfy, applied>>
    /\ UNCHANGED dispatchVars
    /\ UNCHANGED payloadVars
    /\ UNCHANGED cacheVars

NextProxy ==
    \/ Outbound_start /\ ProxyFrame
    \/ Outbound_adapter_submit /\ ProxyFrame
    \/ Outbound_modelscope_poll /\ ProxyFrame
    \/ Outbound_caller /\ ProxyFrame

SpecProxy == InitProxy /\ [][NextProxy]_vars

----------------------------------------------------------------------------
(* Properties of generate_image *)

IsCall(e) == e.type = "call"
IsSleep(e) == e.type = "sleep"
Calls == SelectSeq(events, IsCall)
Sleeps == SelectSeq(events, IsSleep)
Failed(e) == e.outcome.kind \in {"fail", "raise"}
InGenerate == pc = "loop" \/ (pc = "done" /\ result.kind = "returned")

\* C1: generate_image invokes the selected adapter at most max_retries + 1
\* times, the j-th invocation being attempt j - 1; a successful attempt is the
\* last invocation and generate_image returns (True, its payload); a failed
\* call has used all max_retries + 1 attempts; so with max_retries = 2 and
\* outcomes fail, fail, success there are exactly 3 invocations and a success.
C1_AtMostRetriesPlusOneAndShortCircuit ==
    InGenerate =>
        /\ max_retries >= 0 => Len(Calls) <= max_retries + 1
        /\ \A j \in 1..Len(Calls) :
             /\ Calls[j].attempt = j - 1
             /\ Calls[j].outcome.kind = "ok" =>
                    /\ j = Len(Calls)
                    /\ pc = "done"
                    /\ result = Returned(TRUE, Calls[j].outcome.payload)
        /\ (pc = "done" /\ result.success) =>
               (Len(Calls) >= 1 /\ Calls[Len(Calls)].outcome.kind = "ok")
        /\ (pc = "done" /\ ~result.success /\ max_retries >= 0) =>
               Len(Calls) = max_retries + 1
        /\ (max_retries = 2 /\ Len(Calls) >= 2 /\ pc = "done"
              /\ Failed(Calls[1]) /\ Failed(Calls[2]) /\ result.success) =>
               Len(Calls) = 3

\* max_retries = 2, outcomes fail, fail, success: three invocations, success
C1_Witness ==
    /\ pc = "done"
    /\ max_retries = 2
    /\ Len(Calls) = 3
    /\ Calls[1].outcome.kind = "fail"
    /\ Calls[2].outcome.kind = "fail"
    /\ Calls[3].outcome.kind = "ok"
    /\ result = Returned(TRUE, Calls[3].outcome.payload)

\* C2: no sleep precedes attempt 0; every later attempt k is directly preceded
\* by one sleep of 1.0 * k seconds, whether attempt k - 1 returned a failure or
\* raised; and the loop sleeps nowhere else (every sleep directly follows a
\* failed attempt and is the only sleep before the next one).
C2_LinearBackoff ==
    /\ \A i \in 1..Len(events) :
         IsCall(events[i]) =>
            IF events[i].attempt = 0 THEN i = 1
            ELSE /\ i > 2
                 /\ events[i - 1] = SleepEvent(1 * events[i].attempt)
                 /\ IsCall(events[i - 2])
    /\ \A i \in 1..Len(events) :
         IsSleep(events[i]) =>
            /\ i > 1
            /\ IsCall(events[i - 1])
            /\ Failed(events[i - 1])
            /\ events[i].secs = 1 * (events[i - 1].attempt + 1)
    /\ (pc = "done" /\ Len(events) > 0) => IsCall(events[Len(events)])

\* attempt 2 was made after a 2 s sleep that followed a raised attempt 1, which
\* was made after a 1 s sleep that followed a returned failure
C2_Witness ==
    /\ Len(events) = 5
    /\ events[1].outcome.kind = "fail"
    /\ events[2] = SleepEvent(1)
    /\ events[3].outcome.kind = "raise"
    /\ events[4] = SleepEvent(2)
    /\ IsCall(events[5]) /\ events[5].attempt = 2

\* C3: an exception raised by an adapter invocation never propagates out of
\* generate_image.  On a non-final attempt k the loop goes on to attempt k + 1
\* after the k + 1 second sleep, exactly as after a returned failure; on the
\* final attempt generate_image returns (False, message), the message carrying
\* at most the first 100 characters of the exception text.
C3_ExceptionNeverPropagates ==
    /\ result.kind # "propagated"
    /\ \A i \in 1..Len(events) :
         (IsCall(events[i]) /\ Failed(events[i])) =>
            LET k == events[i].attempt
            IN  IF k < max_retries
                THEN IF i = Len(events)
                     THEN pc = "loop" /\ attempt = k + 1 /\ ~slept /\ result = NoResult
                     ELSE /\ events[i + 1] = SleepEvent(k + 1)
                          /\ i + 1 = Len(events) =>
                                (pc = "loop" /\ attempt = k + 1 /\ slept
                                   /\ result = NoResult)
                ELSE /\ i = Len(events)
                     /\ pc = "done"
                     /\ result.kind = "returned"
                     /\ ~result.success
                     /\ events[i].outcome.kind = "raise" =>
                           /\ result.payload.prefix = "API call exception: "
                           /\ Len(result.payload.text) <= 100
                           /\ result.payload.text =
                                SubSeq(events[i].outcome.payload.text, 1,
                                       Len(result.payload.text))
                           /\ Len(events[i].outcome.payload.text) <= 100 =>
                                 result.payload.text = events[i].outcome.payload.text

\* the final attempt raised an exception whose text is longer than 100
\* characters, after an earlier attempt raised too
C3_Witness ==
    /\ pc = "done"
    /\ Len(Calls) = 3
    /\ Calls[1].outcome.kind = "raise"
    /\ Calls[3].outcome.kind = "raise"
    /\ Len(Calls[3].outcome.payload.text) > 100
    /\ result.kind = "returned"
    /\ Len(result.payload.text) = 100

AllRaised == \A j \in 1..Len(Calls) : Calls[j].outcome.kind = "raise"
GenericFailure == Msg("API call failed", <<>>)

ReturnedFailures == SelectSeq(Calls, LAMBDA e : e.outcome.kind = "fail")

\* C4 as stated: when all attempts fail, the result is the failure result of
\* the last attempt that returned one, unmodified, and the generic
\* "API call failed" string is returned if and only if every attempt raised.
C4_LastReturnedFailureOrGeneric ==
    (pc = "done" /\ result.kind = "returned" /\ ~result.success) =>
        /\ Len(ReturnedFailures) > 0 =>
              result.payload = ReturnedFailures[Len(ReturnedFailures)].outcome.payload
        /\ (result.payload = GenericFailure) <=> AllRaised

\* C4 amended: when all attempts fail, the result is decided by the final
\* attempt alone: its failure result unmodified if it returned one, and
\* "API call exception: " with the first 100 characters of the exception text if
\* it raised, whatever the earlier attempts did; the generic "API call failed"
\* string is returned if and only if no attempt was made (max_retries < 0).
C4_FinalAttemptDecides ==
    (pc = "done" /\ result.kind = "returned" /\ ~result.success) =>
        /\ (result.payload = GenericFailure) <=> (Len(Calls) = 0)
        /\ (Len(Calls) = 0) <=> (max_retries < 0)
        /\ Len(Calls) > 0 =>
              LET last == Calls[Len(Calls)].outcome
              IN  /\ last.kind = "fail" => result.payload = last.payload
                  /\ last.kind = "raise" =>
                        result.payload =
                            Msg("API call exception: ", Truncate(last.payload.text, 100))

\* an earlier attempt returned a failure, the final attempt raised, and the
\* result is the exception message, not the returned failure
C4_Witness ==
    /\ pc = "done"
    /\ result.kind = "returned"
    /\ Len(Calls) = 3
    /\ Calls[2].outcome.kind = "fail"
    /\ Calls[3].outcome.kind = "raise"
    /\ result.payload.prefix = "API call exception: "

\* the adapter the claim names for each format value
ClaimedAdapter(format) ==
    IF format = "doubao" THEN "_make_doubao_request"
    ELSE IF format = "modelscope" THEN "_make_modelscope_request"
    ELSE IF format = "gemini" THEN "_make_gemini_request"
    ELSE IF format = "comfyui" THEN "ComfyUIClient._make_request"
    ELSE "_make_openai_image_request"

\* C5: the adapter is chosen from model_config.format alone: doubao, gemini,
\* modelscope and comfyui each go to their own adapter, every other or absent
\* format goes to the OpenAI-compatible adapter, and all attempts of one call
\* use the same adapter.
C5_AdapterByFormat ==
    \A j \in 1..Len(Calls) :
        /\ Calls[j].adapter = ClaimedAdapter(model_config.format)
        /\ Calls[j].adapter = Calls[1].adapter

ConfigError(e) == IsCall(e) /\ e.outcome.cfgerr

\* C6: a configuration error or local precondition failure reported by an
\* adapter ends the request after that single invocation: no retry and no
\* backoff sleep follow it.
C6_ConfigErrorNotRetried ==
    \A i \in 1..Len(events) :
        ConfigError(events[i]) => (pc = "done" /\ Len(events) = 1)

IsPlaceholderKey(api_key) == Len(api_key) = 1 /\ api_key[1] \in Placeholders

\* C7: for every entry point and every API format, a model config whose
\* api_key is a placeholder sentinel makes the request fail before any
\* outbound network request is attempted.
C7_PlaceholderKeyNoNetwork ==
    (pc # "idle" /\ model_config.exists /\ IsPlaceholderKey(model_config.api_key)) =>
        /\ \A j \in 1..Len(Calls) : ~Calls[j].outcome.net
        /\ pc = "done" => ~result.success

\* C8: strength is sent only together with a source image: every call the
\* Action and the Command make to generate_image has strength only if it has
\* an input image, and every payload the OpenAI-compatible adapter builds,
\* platform filtering included, carries strength only if it carries the image.
C8_StrengthOnlyWithImage ==
    /\ (entry \in {"Action", "CommandStyle", "CommandNatural"} /\ InGenerate) =>
          (strength # StrengthNone => input_image_base64 \in Images)
    /\ "strength" \in payload_dict =>
          ("image" \in payload_dict /\ payload_in.image \in Images)

\* the adapter was handed a strength without a source image and built a
\* payload without strength
C8_Witness ==
    /\ entry = "OpenAIClient"
    /\ pc = "done"
    /\ payload_in.strength # StrengthNone
    /\ payload_in.image = ImgNone
    /\ "prompt" \in payload_dict
    /\ "strength" \notin payload_dict

----------------------------------------------------------------------------
(* Properties of the result caches *)

\* C9: a text-to-image cache key never equals an image-to-image cache key,
\* each cache holds only results of its own mode, and a request served from
\* the cache is served a result of its own mode.
C9_ModesNeverCollide ==
    /\ \A i \in 1..Len(_request_cache) :
         /\ _request_cache[i].value.image = ImgNone
         /\ \A j \in 1..Len(_img2img_cache) :
              _request_cache[i].key # _img2img_cache[j].key
    /\ \A j \in 1..Len(_img2img_cache) : _img2img_cache[j].value.image # ImgNone
    /\ served # NoServed =>
          ((served[1].req.image = ImgNone) <=> (served[1].value.image = ImgNone))

\* a text-to-image request was served from the cache while the image-to-image
\* cache held a result for the same prompt, model and size
C9_Witness ==
    /\ served # NoServed
    /\ served[1].req.image = ImgNone
    /\ served[1].value.image = ImgNone
    /\ \E j \in 1..Len(_img2img_cache) :
         /\ _img2img_cache[j].value.prompt = served[1].req.prompt
         /\ _img2img_cache[j].value.model = served[1].req.model
         /\ _img2img_cache[j].value.size = served[1].req.size

CacheNamed(name) == IF name = "_img2img_cache" THEN _img2img_cache ELSE _request_cache

\* C10: after every insertion and its cleanup each cache holds at most its
\* maximum number of entries; an insertion that brings the size to
\* max_size + 1 leaves exactly the max_size // 2 most recently inserted
\* entries, in order, which is not an empty cache; a smaller insertion evicts
\* nothing; and the entry just inserted is retained.
C10_EvictOldestHalf ==
    /\ Len(_request_cache) <= 100
    /\ Len(_img2img_cache) <= 50
    /\ inserted # NoInserted =>
          LET ins == inserted[1]
              cache == CacheNamed(ins.cache)
              max_size == IF ins.cache = "_img2img_cache" THEN 50 ELSE 100
              n == Len(ins.stored)
          IN  /\ Has(cache, ins.key)
              /\ n <= max_size + 1
              /\ n = max_size + 1 =>
                    /\ Len(cache) = max_size \div 2
                    /\ Len(cache) > 0
                    /\ cache = SubSeq(ins.stored, n - (max_size \div 2) + 1, n)
                    /\ cache[Len(cache)].key = ins.key
              /\ n <= max_size => cache = ins.stored

\* the 101st entry was inserted into the text-to-image cache and 50 remain
C10_Witness ==
    /\ inserted # NoInserted
    /\ inserted[1].cache = "_request_cache"
    /\ Len(inserted[1].stored) = 101
    /\ Len(_request_cache) = 50
    /\ _request_cache[50].key = inserted[1].key

----------------------------------------------------------------------------
(* Properties of requests in flight on the caches *)

InFlightKeys == {request_key(req) : req \in InFlightRequests}

HasKey(k) == Has(_request_cache, k) \/ Has(_img2img_cache, k)

\* a failed delivery of a cached result for key k is handled in this step
FailedDeliveryHandled(t, k) ==
    /\ tasks[t].pc = "send_cached"
    /\ request_key(tasks[t].req) = k
    /\ tasks'[t].pc \in {"generate", "raised"}

\* a generation for key k that succeeded and was delivered stores its result
\* in this step
DeliveredGenerationStored(t, k) ==
    /\ tasks[t].pc = "generate"
    /\ request_key(tasks[t].req) = k
    /\ tasks'[t].pc = "done"

C11_Step ==
    \A k \in InFlightKeys :
        /\ (\E t \in 1..NumTasks : FailedDeliveryHandled(t, k)) => ~HasKey(k)'
        /\ (~HasKey(k) /\ HasKey(k)') =>
              \E t \in 1..NumTasks : DeliveredGenerationStored(t, k)

\* C11: when the delivery of a cached result fails, the step that handles the
\* failure leaves the key absent from the cache before the generation goes
\* on, and an absent key becomes present again only in the step in which a
\* generation for that key that succeeded and was delivered stores its result.
C11_FailedDeliveryRemovesEntry == [][C11_Step]_vars

\* a request found its key in the cache, the delivery failed, and it is now
\* generating anew while the key is absent from the cache
C11_Witness ==
    \E t \in 1..NumTasks :
        /\ tasks[t].pc = "generate"
        /\ tasks[t].via_hit
        /\ ~HasKey(request_key(tasks[t].req))

\* C12: with several requests in flight on the shared caches, no interleaving
\* of their lookups, failed-delivery removals, insertions and evictions ends
\* in an error: the removal after a failed cached delivery never fails
\* because the key is already gone.
C12_NoErrorInFlight ==
    \A t \in 1..NumTasks : tasks[t].error = "none"

----------------------------------------------------------------------------
(* Properties of the polling adapters *)

\* this step is one iteration of the ModelScope poll loop
MsPolled == ms.pc = "poll" /\ ms'.status_requests = ms.status_requests + 1

C13_Step ==
    MsPolled =>
        /\ ms'.last \in {"PENDING", "RUNNING", "UNKNOWN", "QUEUED", "non200", "raise"} =>
              /\ ms'.pc = "poll"
              /\ ms'.attempt = ms.attempt + 1
              /\ ms'.result = NoAdapterResult
              /\ ms'.downloads = ms.downloads
        /\ (ms'.last = "SUCCEED" /\ ms'.output_images # <<>>) =>
              /\ ms'.pc = "done"
              /\ ms'.downloads = ms.downloads + 1
              /\ ms'.image_url = ms'.output_images[1]
        /\ ms'.last = "FAILED" =>
              /\ ms'.pc = "done"
              /\ ~ms'.result.success
              /\ ms'.downloads = ms.downloads
              /\ ms'.error_message # <<>> => ms'.result.text = ms'.error_message

C13_TimeoutOnlyAfterAllPolls ==
    /\ ms.result.prefix = "task timed out" => ms.status_requests = 24
    /\ (ms.pc = "poll" /\ ms.attempt < 24) => ms.result = NoAdapterResult

\* C13: in the poll loop of the ModelScope adapter PENDING, RUNNING and any
\* unknown status lead to the next iteration without a result; SUCCEED leads
\* to the download of output_images[0]; FAILED ends with a failure that
\* carries the provider's error_message; a status request that answers with a
\* non-200 status or raises leads to the next iteration, never to a result;
\* and the timeout failure is returned only after 24 status requests.
C13_PollReactions == [][C13_Step]_vars /\ []C13_TimeoutOnlyAfterAllPolls

\* the 24th status request answered with a non-200 status, like others before
\* it, and the adapter returned the timeout failure
C13_Witness ==
    /\ ms.pc = "done"
    /\ ms.result.prefix = "task timed out"
    /\ ms.status_requests = 24
    /\ ms.last = "non200"
    /\ ms.trace = <<"other", "RUNNING", "other">>

\* C14: a success of the ModelScope adapter carries the base64 encoding of
\* the bytes downloaded from output_images[0] (the bytes "Man" give "TWFu",
\* the byte "M" gives "TQ=="), never the URL, after exactly one download; and
\* poll answers RUNNING, RUNNING, SUCCEED with an image mean exactly three
\* status requests and one download.
C14_SuccessIsBase64OfDownload ==
    /\ ms.result.success =>
          /\ ms.result.text = b64encode(ms.content)
          /\ ms.result.text # ms.image_url
          /\ ms.image_url = ms.output_images[1]
          /\ ms.downloads = 1
          /\ ms.content = <<77, 97, 110>> => ms.result.text = <<"T", "W", "F", "u">>
          /\ ms.content = <<77, 97>> => ms.result.text = <<"T", "W", "E", "=">>
          /\ ms.content = <<77>> => ms.result.text = <<"T", "Q", "=", "=">>
          /\ ms.content = <<>> => ms.result.text = <<>>
    /\ (ms.pc = "done" /\ ms.trace = <<"RUNNING", "RUNNING", "SUCCEED">>
          /\ ms.output_images # <<>>) =>
          (ms.status_requests = 3 /\ ms.downloads = 1)

\* RUNNING, RUNNING, SUCCEED, and the downloaded bytes "Man" returned as "TWFu"
C14_Witness ==
    /\ ms.pc = "done"
    /\ ms.result.success
    /\ ms.trace = <<"RUNNING", "RUNNING", "SUCCEED">>
    /\ ms.image_url = UrlA
    /\ ms.content = <<77, 97, 110>>
    /\ ms.result.text = <<"T", "W", "F", "u">>

C15_Bounded ==
    /\ ms.status_requests <= 24
    /\ ~comfy.late_request
    /\ comfy.elapsed < 300 + 10 + 30 + 2
    /\ (ms.pc = "done" /\ ms.status_requests = 24
          /\ ms.last \notin {"SUCCEED", "FAILED"}) =>
          (~ms.result.success /\ ms.result.prefix = "task timed out")
    /\ (comfy.pc = "done" /\ comfy.elapsed >= 300 /\ ~comfy.result.success) =>
          comfy.result.prefix = "image generation timed out or failed"

\* C15: both poll loops end whatever the server answers: the ModelScope loop
\* makes at most 24 status requests, the ComfyUI loop makes no history
\* request once 300 seconds have elapsed, each loop that was entered is left,
\* and a loop left because its budget is used up reports a failure.
C15_PollLoopsTerminate ==
    /\ []C15_Bounded
    /\ (ms.pc = "poll") ~> (ms.pc = "done")
    /\ (comfy.pc = "poll") ~> (comfy.pc = "done")

\* the ComfyUI loop ran out of its 300 seconds and the adapter reported a
\* failure
C15_Witness ==
    /\ comfy.pc = "done"
    /\ comfy.elapsed >= 300
    /\ ~comfy.late_request
    /\ comfy.result = AdapterResult(FALSE, "image generation timed out or failed", <<>>)

\* C17: every failure message an adapter returns carries at most about 100
\* characters of the provider's error text or of the exception message
\* (checked with a margin: at most 150).
C17_FailureTextCapped ==
    /\ (ms.pc = "done" /\ ~ms.result.success) => Len(ms.result.text) <= 150
    /\ (comfy.pc = "done" /\ ~comfy.result.success) => Len(comfy.result.text) <= 150

----------------------------------------------------------------------------
(* Properties of the pure functions *)

\* the field is there and holds a value that can be used
Present(v) == v \notin {FieldAbsent, JsonNull, ""}

\* the four fields of a response in the order of their priority
PriorityFields(r) ==
    <<IF r.data.kind = "dict" THEN r.data.b64_json ELSE FieldAbsent,
      IF r.data.kind = "dict" THEN r.data.url ELSE FieldAbsent,
      IF r.images.kind = "dict" THEN r.images.url ELSE FieldAbsent,
      r.url>>

\* C16: for a 2xx response whose four fields data[0].b64_json, data[0].url,
\* images[0].url and top-level url are each either missing or a non-empty
\* string, the adapter returns the first one that is present in that order,
\* and fails only when none of the four is present.
C16_FirstPresentFieldWins ==
    (/\ applied.fn = "openai_parse_response"
     /\ \A i \in 1..4 : PriorityFields(applied.in)[i] \notin {JsonNull, ""}) =>
        LET f == PriorityFields(applied.in)
            present == {i \in 1..4 : Present(f[i])}
        IN  IF present = {}
            THEN ~applied.out.success
            ELSE /\ applied.out.success
                 /\ applied.out.payload = f[CHOOSE i \in present : \A j \in present : i <= j]

\* C19: _build_gemini_image_config maps "W:H-T" to aspectRatio W:H with
\* imageSize T when the model name contains "gemini-3" and T is 1K, 2K or 4K,
\* and to aspectRatio W:H alone for every other model; "W:H" to aspectRatio
\* W:H; the pixel size "1024x1024" to aspectRatio 1:1; and an empty
\* default_size to no imageConfig.
C19_GeminiImageConfig ==
    applied.fn = "_build_gemini_image_config" =>
        LET m == applied.in.model
            sz == applied.in.size
            out == applied.out
        IN  /\ (sz.form = "ratio-tier" /\ m.family = "gemini-3"
                  /\ sz.tier \in {<<"1", "K">>, <<"2", "K">>, <<"4", "K">>}) =>
                  out = [none |-> FALSE, aspectRatio |-> sz.ratio, imageSize |-> sz.tier]
            /\ (sz.form = "ratio-tier" /\ m.family = "other") =>
                  out = [none |-> FALSE, aspectRatio |-> sz.ratio, imageSize |-> <<>>]
            /\ sz.form = "ratio" =>
                  out = [none |-> FALSE, aspectRatio |-> sz.ratio, imageSize |-> <<>>]
            /\ sz.text = <<"1", "0", "2", "4", "x", "1", "0", "2", "4">> =>
                  out = [none |-> FALSE, aspectRatio |-> <<"1", ":", "1">>,
                         imageSize |-> <<>>]
            /\ sz.text = <<>> => out.none
            /\ (m.name = <<"g", "e", "m", "i", "n", "i", "-", "3", "-", "p", "r", "o">>
                  /\ sz.text = <<"1", "6", ":", "9", "-", "2", "K">>) =>
                  (out.aspectRatio = <<"1", "6", ":", "9">> /\ out.imageSize = <<"2", "K">>)

\* "16:9-2K" for a model that is not Gemini 3: aspectRatio 16:9 alone
C19_Witness ==
    /\ applied.fn = "_build_gemini_image_config"
    /\ applied.in.model.family = "other"
    /\ applied.in.size.text = <<"1", "6", ":", "9", "-", "2", "K">>
    /\ applied.out = [none |-> FALSE, aspectRatio |-> <<"1", "6", ":", "9">>,
                       imageSize |-> <<>>]

IsSeparator(c) == c \in {"x", "X", "*"}

\* the decimal numeral of a positive integer: digits only, no leading zero
IsPositiveNumeral(str) ==
    /\ Len(str) > 0
    /\ \A i \in 1..Len(str) : str[i] \in {"0", "1", "2", "3", "4", "5", "6", "7", "8", "9"}
    /\ str[1] # "0"

RECURSIVE Pow10(_)
Pow10(n) == IF n = 0 THEN 1 ELSE 10 * Pow10(n - 1)

RECURSIVE NumeralValueFrom(_, _)
NumeralValueFrom(str, i) ==
    IF i > Len(str) THEN 0
    ELSE ((CHOOSE d \in 0..9 : <<"0", "1", "2", "3", "4", "5", "6", "7", "8", "9">>[d + 1] = str[i])
            * Pow10(Len(str) - i)) + NumeralValueFrom(str, i + 1)

\* the part is an integer numeral: an optional minus sign and digits, possibly
\* surrounded by blanks
IsIntegerNumeral(part) ==
    \E i, j \in 1..Len(part) :
        /\ i <= j
        /\ \A k \in 1..Len(part) : (k < i \/ k > j) => part[k] = " "
        /\ LET first == IF part[i] = "-" THEN i + 1 ELSE i
           IN  /\ first <= j
               /\ \A k \in first..j : part[k] \in {"0", "1", "2", "3", "4", "5", "6", "7", "8", "9"}

\* an integer numeral that denotes zero or a negative number
IsNonPositiveNumeral(part) ==
    /\ IsIntegerNumeral(part)
    /\ \/ \E k \in 1..Len(part) : part[k] = "-"
       \/ \A k \in 1..Len(part) : part[k] \in {"0", " "}

SeparatorPositions(str) == {i \in 1..Len(str) : IsSeparator(str[i])}

\* the classes of malformed input the claim lists
Malformed(size) ==
    \/ ~size.is_str
    \/ size.chars = <<>>
    \/ SeparatorPositions(size.chars) = {}
    \/ Cardinality(SeparatorPositions(size.chars)) > 1
    \/ \E i \in SeparatorPositions(size.chars) :
         LET left == SubSeq(size.chars, 1, i - 1)
             right == SubSeq(size.chars, i + 1, Len(size.chars))
         IN  \/ ~IsIntegerNumeral(left)
             \/ ~IsIntegerNumeral(right)
             \/ IsNonPositiveNumeral(left)
             \/ IsNonPositiveNumeral(right)

\* C20: for positive integers W and H, parse_pixel_size of "WxH", "WXH" or
\* "W*H" returns (W, H) whatever the defaults are; for a malformed string (no
\* separator, a non-numeric part, a zero or negative part, more than two
\* parts, empty, or not a string) it returns the defaults it was given.
C20_ParsePixelSize ==
    applied.fn = "parse_pixel_size" =>
        LET size == applied.in.size
            chars == size.chars
        IN  /\ \A i \in 1..Len(chars) :
                  (/\ size.is_str
                   /\ IsSeparator(chars[i])
                   /\ IsPositiveNumeral(SubSeq(chars, 1, i - 1))
                   /\ IsPositiveNumeral(SubSeq(chars, i + 1, Len(chars)))) =>
                  applied.out = <<NumeralValueFrom(SubSeq(chars, 1, i - 1), 1),
                                  NumeralValueFrom(SubSeq(chars, i + 1, Len(chars)), 1)>>
            /\ Malformed(size) =>
                  applied.out = <<applied.in.default_width, applied.in.default_height>>

\* "10X1" parsed to (10, 1) with defaults (512, 768)
C20_Witness ==
    /\ applied.fn = "parse_pixel_size"
    /\ applied.in.size = [is_str |-> TRUE, chars |-> <<"1", "0", "X", "1">>]
    /\ applied.in.default_width = 512
    /\ applied.out = <<10, 1>>

\* C18: when proxy.enabled is true, every outbound request of a generation
\* (submit, polling, the adapter's download, the caller-side download by the
\* Action and by the Command) is sent through the configured proxy.
C18_EveryRequestThroughProxy ==
    outbound.proxy_enabled => \A request \in outbound.log : request.via_proxy

\* a numeral of a positive integer; with blanks allowed around it when lenient
PositiveNumeral(part, lenient) ==
    LET core == IF lenient THEN StrStrip(part) ELSE part
    IN  /\ Len(core) > 0
        /\ \A i \in 1..Len(core) :
             core[i] \in {"0", "1", "2", "3", "4", "5", "6", "7", "8", "9"}
        /\ \E i \in 1..Len(core) : core[i] # "0"

\* a numeral of an integer between 64 and 4096
PixelNumeral(part, lenient) ==
    LET core == IF lenient THEN StrStrip(part) ELSE part
    IN  /\ PositiveNumeral(core, FALSE)
        /\ NumeralValueFrom(core, 1) >= 64
        /\ NumeralValueFrom(core, 1) <= 4096

TierWord(part, lenient) ==
    IF lenient
    THEN StrStrip(part) \in {<<"1", "K">>, <<"2", "K">>, <<"4", "K">>,
                             <<"1", "k">>, <<"2", "k">>, <<"4", "k">>}
    ELSE part \in {<<"1", "K">>, <<"2", "K">>, <<"4", "K">>}

Before(str, i) == SubSeq(str, 1, i - 1)
After(str, i) == SubSeq(str, i + 1, Len(str))

\* the four grammars: W:H, W:H-T, -T, WxH
GrammarRatio(str, lenient) ==
    \E i \in 1..Len(str) :
        str[i] = ":" /\ PositiveNumeral(Before(str, i), lenient)
                     /\ PositiveNumeral(After(str, i), lenient)

GrammarRatioTier(str, lenient) ==
    \E i \in 1..Len(str) :
        str[i] = "-" /\ GrammarRatio(Before(str, i), lenient)
                     /\ TierWord(After(str, i), lenient)

GrammarTier(str, lenient) ==
    Len(str) > 0 /\ str[1] = "-" /\ TierWord(After(str, 1), lenient)

GrammarPixel(str, lenient) ==
    \E i \in 1..Len(str) :
        /\ str[i] \in (IF lenient THEN {"x", "X", "*"} ELSE {"x"})
        /\ PixelNumeral(Before(str, i), lenient)
        /\ PixelNumeral(After(str, i), lenient)

GrammarsMatched(str, lenient) ==
    LET core == IF lenient THEN StrStrip(str) ELSE str
    IN  (IF GrammarRatio(core, lenient) THEN {"ratio"} ELSE {}) \cup
        (IF GrammarRatioTier(core, lenient) THEN {"ratio-tier"} ELSE {}) \cup
        (IF GrammarTier(core, lenient) THEN {"tier"} ELSE {}) \cup
        (IF GrammarPixel(core, lenient) THEN {"pixel"} ELSE {})

ValidateExamples(out, chars) ==
    /\ chars \in {<<"1", "0", "2", "4", "x", "1", "0", "2", "4">>, <<"1", "6", ":", "9">>,
                  <<"1", "6", ":", "9", "-", "2", "K">>, <<"-", "4", "K">>} => out
    /\ chars \in {<<"1", "0", "2", "4">>, <<"a", "b", "c", "x", "d", "e", "f">>, <<>>,
                  <<"1", "6", ":", "9", "-", "5", "K">>} => ~out

\* C21 as stated: validate_image_size returns true exactly for the strings
\* W:H, W:H-T, -T (T one of 1K, 2K, 4K) and WxH with W and H in [64, 4096], no
\* string matches two of the grammars, and the eight examples are answered as
\* listed.
C21_ExactlyFourGrammars ==
    applied.fn = "validate_image_size" =>
        LET matched == IF applied.in.is_str
                       THEN GrammarsMatched(applied.in.chars, FALSE) ELSE {}
        IN  /\ Cardinality(matched) <= 1
            /\ applied.out = (matched # {})
            /\ ValidateExamples(applied.out, applied.in.chars)

\* C21 (amended): validate_image_size returns true exactly for the strings of
\* the four grammars when blanks around the string and around each part are
\* allowed, the tier is read in either case, and the pixel separator is x, X
\* or *; no string matches two of the grammars, and the eight examples are
\* answered as listed.
C21_FourGrammarsUpToCaseAndBlanks ==
    applied.fn = "validate_image_size" =>
        LET matched == IF applied.in.is_str
                       THEN GrammarsMatched(applied.in.chars, TRUE) ELSE {}
        IN  /\ Cardinality(matched) <= 1
            /\ applied.out = (matched # {})
            /\ ValidateExamples(applied.out, applied.in.chars)

\* "64x64": a pixel size at the lower limit is accepted
C21_Witness ==
    /\ applied.fn = "validate_image_size"
    /\ applied.in = [is_str |-> TRUE, chars |-> <<"6", "4", "x", "6", "4">>]
    /\ applied.out

\* a value that carries an image payload: a non-empty string, or a list with
\* a first element
YieldsPayload(v) == (v.t = "str" /\ v.s # "") \/ (v.t = "list" /\ Len(v.l) > 0)
PayloadOf(v) == IF v.t = "list" THEN [t |-> "str", s |-> v.l[1], l |-> <<>>] ELSE v

\* C22: process_api_response returns a string unchanged; for a dict the first
\* non-empty value among url, image, b64_json, data, otherwise the nested
\* output.image_url or the first element of output.images; and None whenever
\* none of these yields an image payload.
C22_ExtractsFirstPayload ==
    applied.fn = "process_api_response" =>
        LET r == applied.in
            top == <<r.url, r.image, r.b64_json, r.data>>
            tops == {i \in 1..4 : YieldsPayload(top[i])}
            nested == IF r.output.kind = "dict"
                      THEN <<r.output.image_url, r.output.images>> ELSE <<>>
            nesteds == {i \in 1..Len(nested) : YieldsPayload(nested[i])}
            None == [t |-> "none", s |-> "", l |-> <<>>]
        IN  IF r.kind = "str" THEN applied.out = r.text
            ELSE IF r.kind # "dict" THEN applied.out = None
            ELSE IF tops # {}
            THEN applied.out = top[CHOOSE i \in tops : \A j \in tops : i <= j]
            ELSE IF nesteds # {}
            THEN applied.out \in {PayloadOf(nested[i]) : i \in nesteds}
            ELSE applied.out = None

\* the base URL names one of the three platforms the payload is rewritten for
SpecialPlatform(base_url) ==
    \E i \in 1..Len(base_url) :
        base_url[i] \in {"api.siliconflow.cn", "API.OPENAI.COM", "api.openai.com", "api.x.ai"}

\* the host of the base URL is the Doubao endpoint
DoubaoEndpoint(base_url) == Len(base_url) >= 2 /\ base_url[2] = "ark.cn-beijing.volces.com"

\* C23: on a base URL that is none of the three special-cased platforms an
\* OpenAI-format payload carries watermark alone when the base URL is the
\* Doubao endpoint, and guidance_scale with num_inference_steps, without
\* watermark, for every other base URL.
C23_OnePlatformGroup ==
    (entry \in {"OpenAIClient", "ApiClient"} /\ pc = "done"
        /\ ~SpecialPlatform(payload_in.base_url)) =>
        IF DoubaoEndpoint(payload_in.base_url)
        THEN payload_dict \cap {"watermark", "guidance_scale", "num_inference_steps"}
                = {"watermark"}
        ELSE payload_dict \cap {"watermark", "guidance_scale", "num_inference_steps"}
                = {"guidance_scale", "num_inference_steps"}

\* C24: between two consecutive status polls of a ModelScope task the adapter
\* has slept the 5-second interval, whatever the earlier poll produced: when
\* the loop is about to poll again after an earlier poll, it has slept.
C24_SleepBetweenPolls ==
    (ms.pc = "poll" /\ ms.status_requests > 0) => ms.slept

\* C25: for every default_size that contains the letter x
\* _build_gemini_image_config falls back to aspectRatio "1:1", so that the
\* aspectRatio it returns never contains pixel notation.
C25_PixelNotationFallsBack ==
    (applied.fn = "_build_gemini_image_config"
        /\ \E i \in 1..Len(applied.in.size.text) : applied.in.size.text[i] \in {"x", "X"}) =>
        /\ ~applied.out.none
        /\ applied.out.aspectRatio = <<"1", ":", "1">>

\* C26: a request that names a model id for which no configuration exists
\* fails with a configuration error before any adapter is invoked and is not
\* served by another model, in the Action as well as in the Command.
C26_UnknownModelIsFatal ==
    (applied.fn = "_get_model_config" /\ applied.in.model_id # ""
        /\ applied.in.model_id \notin applied.in.configured) =>
        /\ applied.out.served_by = "none"
        /\ applied.out.check # "ok"

\* C27: every prompt the Action and the Command hand to generate_image is
\* non-empty and at most 1000 characters long, in selfie mode and after the
\* removal of a model selector too.
C27_PromptWithinLimits ==
    (applied.fn = "prompt" /\ applied.out.handed) =>
        (applied.out.len >= 1 /\ applied.out.len <= 1000)

\* C28: every path of the Action's _execute_unified_generation after
\* generate_image returns a (success, message) pair; when the adapter returned
\* a URL, download and encoding succeeded and sending the image failed, it
\* returns (False, message) and stores nothing in the cache.
C28_AlwaysReturnsPair ==
    applied.fn = "finish_generation" =>
        /\ applied.out.value = "pair"
        /\ (applied.in.success /\ applied.in.extracted = "url"
              /\ applied.in.encode = "encoded" /\ ~applied.in.send_success) =>
              (~applied.out.success /\ ~applied.out.cached)

\* C29: an image-to-image request is served from the cache only with a result
\* that was generated from the same source image: requests that agree in
\* prompt, model, size and strength but differ in the source image never
\* receive each other's cached result.
C29_ServedFromSameSourceImage ==
    (served # NoServed /\ served[1].req.image # ImgNone) =>
        served[1].value.image = served[1].req.image

\* C30: an outbound request is routed through the proxy only if proxy.enabled
\* is true at the time of that request: after an OpenAI-format request made
\* with the proxy enabled, every later request and image download made with
\* the proxy disabled goes out directly.
C30_ProxyOnlyWhileEnabled ==
    \A request \in outbound.log : request.via_proxy => outbound.proxy_enabled

====
